---- MODULE Spec2Model ----
(***************************************************************************)
(* Verification model of ringo380/lessoncraft.                             *)
(*                                                                         *)
(* The module holds one state machine per component:                       *)
(*   SpecStore  the lesson stores (MemoryLessonStore, MongoLessonStore)    *)
(*   SpecCB     the circuit breaker (internal/circuitbreaker)              *)
(*   SpecDinD   the DinD instance provisioner                              *)
(*   SpecCache  the CachedLessonStore decorator over a backing store       *)
(* All components share the variable list; a component's specification     *)
(* keeps the variables of the other components at their initial values.    *)
(***************************************************************************)
EXTENDS Integers, Sequences, FiniteSets, TLC

VARIABLES
    \* ---- lesson stores ----
    backend,      \* which LessonStore was constructed: "memory" or "mongo"
    now,          \* time.Now() as seen by the stores (ticks)
    heap,         \* Go heap of *lesson.Lesson objects, indexed by pointer
    lessons,      \* MemoryLessonStore.lessons: id -> pointer (NilPtr = absent)
    collection,   \* MongoDB collection "lessons": id -> document (NoDoc = absent)
    mpc,          \* per goroutine: position inside MongoLessonStore.UpdateLesson
    mid,          \* per goroutine: the id argument of the running UpdateLesson
    mcur,         \* per goroutine: currentLesson decoded by FindOne
    mattempt,     \* per goroutine: the attempt counter of withRetry
    \* ---- circuit breaker ----
    state,               \* cb.state
    failureCount,        \* cb.failureCount
    successCount,        \* cb.successCount
    sinceLastStateChange,\* time.Since(cb.lastStateChange) in ticks, saturating
    cpc,                 \* per caller: position inside Execute or Reset
    cresult,             \* per caller: the error of fn, then what Execute returned
    \* history variables of the breaker, read by the claims only
    closedRun,           \* failures recorded in a row since the breaker was last Closed
    halfOpenSuccesses,   \* successes recorded since the breaker entered HalfOpen
    sinceOpened,         \* ticks since the breaker entered Open, saturating
    openedFrom,          \* the state the breaker was in when it last entered Open
    trial,               \* the caller whose AllowRequest made Open -> HalfOpen
    notified,            \* from and to of the last go cb.onStateChange(name, from, to)
    \* ---- DinD provisioner ----
    instances,    \* storage: the persisted instances
    containers,   \* the Docker daemon: names of the containers that exist
    deleted,      \* the Docker daemon: names ContainerDelete was issued for
    nextId,       \* d.generator.NewId(): ids handed out so far
    dpc,          \* per session: position of the InstanceNew call holding the session
    dcall,        \* per session: the instance that call is building
    dresult,      \* per session: what the last InstanceNew returned
    \* ---- cached lesson store ----
    bstore,       \* the backing LessonStore: id -> version of the lesson (0 = absent)
    cache,        \* InMemoryCache.items: key -> entry
    kpc,          \* per goroutine: position inside a CachedLessonStore method
    kkey,         \* per goroutine: the cache key of the running method
    kval,         \* per goroutine: the value read from the backing store
    kresult,      \* per goroutine: how the last method returned
    \* history variables of the cached store, read by the claims only
    cachedBefore, \* per goroutine: keys still holding the entry they held when its mutation began
    kaffected,    \* per goroutine: keys whose backing-store value its mutation changed
    \* ---- ListLessons ----
    llessons,     \* the lessons the store holds while it is listed (no mutation)
    lresult,      \* the ListOptions and *ListResult of the last ListLessons call
    lsweep,       \* a client reading pages 1, 2, ... with the same options
    \* ---- withRetry ----
    rpc,          \* per caller: position inside withRetry
    rattempt,     \* per caller: the loop variable attempt
    rerr,         \* per caller: err of the last attempt, then what withRetry returned
    \* history variables of withRetry, read by the claims only
    rinvoked,     \* per caller: times the running (or last) call invoked f
    rrecorded,    \* per caller: results the running (or last) call recorded in the breaker
    \* ---- lesson commands ----
    vlesson,      \* the command of the stored lesson's step, NoCommand when no lesson is stored
    vstatus,      \* HTTP status of the last lesson request
    vexec,        \* the command last handed to the container by InstanceExec
    \* ---- image and resource limits of a new instance ----
    iconf,        \* the InstanceConfig InstanceNew was called with
    ictx,         \* the lesson, step and primary container conf.LessonCtx leads to
    iout,         \* conf as ContainerCreate gets it, NoConf before InstanceNew ran
    \* ---- hostname of a new instance ----
    hnames,       \* hostnames of the instances InstanceFindBySessionId returns for the session
    hconf,        \* conf.Hostname of the last InstanceNew, after the lesson context
    hlast,        \* the hostname that InstanceNew chose, NoHostname before it ran
    \* ---- CollectStats ----
    stype,        \* per instance: instance.Type
    spc,          \* per instance: position of its CollectStats run
    scache,       \* session ids in the task's session cache
    sret,         \* per instance: what the last run returned, "none" while running
    \* history variables of CollectStats, read by the claims only
    semitted,     \* per instance: events the running (or last) run emitted
    srow,         \* per instance: session and row of the event last emitted
    \* ---- SearchLessons ----
    qstore,       \* the backend SearchLessons runs on
    qlesson,      \* category and tags of the lesson the store holds
    qopts,        \* Categories, Tags and RequiredTags of the SearchOptions
    qfound,       \* "none" before the search, then "returned" or "omitted"
    \* ---- GetLessonVersion ----
    glesson,      \* the lesson the store holds under the id, NoDoc before CreateLesson
    gnow,         \* time.Now()
    greq,         \* the version the last GetLessonVersion asked for
    gres,         \* what the last GetLessonVersion returned
    gstamps,      \* history: gstamps[v] is the time version v was written
    gtitles,      \* history: gtitles[v] is the title the lesson had at version v
    \* ---- the markdown parsers ----
    pkind,        \* which parser runs: "Parser" or "SimpleParser"
    psteps,       \* lesson.Steps so far
    pcur,         \* SimpleParser's currentStep: index into psteps, 0 for nil
    plast,        \* the block processed last
    pn,           \* number of blocks processed
    \* ---- step output validation ----
    yroute,       \* the route of the request: "complete" or "validate"
    ygiven,       \* the {step} segment of the request's URL, "" when the route has none
    yexpected,    \* Expected of the lesson's only step
    yout,         \* the output field of the request body
    yfail,        \* whether the store's UpdateLesson fails
    yresp,        \* "none" before the handler ran, then "valid", "invalid" or "error"
    \* ---- the breaker-wrapped HTTP client and transport ----
    hwrap,        \* "client" (CircuitBreakerHTTPClient) or "transport" (circuitBreakerTransport)
    hstate,       \* cb.state of the wrapper's breaker
    hfailures,    \* cb.failureCount
    hsuccesses,   \* cb.successCount
    hsince,       \* time.Since(cb.lastStateChange), in ticks
    hout,         \* what the wrapped client answered to the last request
    hrecorded,    \* what RecordResult recorded for the last request
    hbefore,      \* history: state and counters the last RecordResult found
    hret,         \* what the last Do or RoundTrip returned
    \* ---- the rate-limiting middleware ----
    ltokens,      \* tokens in the limiter's bucket
    ladmitted,    \* requests passed to the next handler during the current second
    lrejected,    \* requests answered 429 during the current second
    lout,         \* how the middleware answered the last request of the current second
    \* ---- calls in flight across breaker periods ----
    qstate,       \* cb.state
    qfailures,    \* cb.failureCount
    qsuccesses,   \* cb.successCount
    qsince,       \* time.Since(cb.lastStateChange) in ticks, saturating
    qpc,          \* per caller: "idle", or "fn" while Execute runs the operation
    qstale,       \* history, per caller: the breaker opened since the call was admitted
    \* ---- lesson progress through completeStep ----
    ubackend,     \* "memory": GetLesson returns the stored *Lesson; "mongo": a decoded copy
    ucurrent,     \* CurrentStep of the stored lesson
    upc,          \* per request: position inside completeStep
    ustep,        \* per request: stepIndex
    ulocal,       \* per request: the CurrentStep the request holds (a register, or its copy)
    \* ---- cached listings ----
    vlessons,     \* the lessons of the backing store
    vcache,       \* the cache: list key -> the cached *ListResult, or NoListResult
    vlast         \* the last ListLessons call through the cached store and its result

storeVars == <<backend, now, heap, lessons, collection, mpc, mid, mcur, mattempt>>

cbVars == <<state, failureCount, successCount, sinceLastStateChange, cpc, cresult,
            closedRun, halfOpenSuccesses, sinceOpened, openedFrom, trial,
            notified>>

dindVars == <<instances, containers, deleted, nextId, dpc, dcall, dresult>>

cacheVars == <<bstore, cache, kpc, kkey, kval, kresult, cachedBefore, kaffected>>

listVars == <<llessons, lresult, lsweep>>

\* the variables of the components that follow the cached store
retryVars == <<rpc, rattempt, rerr, rinvoked, rrecorded>>

cmdVars == <<vlesson, vstatus, vexec>>

confVars == <<iconf, ictx, iout>>

nodeVars == <<hnames, hconf, hlast>>

statsVars == <<stype, spc, scache, sret, semitted, srow>>

searchVars == <<qstore, qlesson, qopts, qfound>>

versionVars == <<glesson, gnow, greq, gres, gstamps, gtitles>>

parseVars == <<pkind, psteps, pcur, plast, pn>>

checkVars == <<yroute, ygiven, yexpected, yout, yfail, yresp>>

httpVars == <<hwrap, hstate, hfailures, hsuccesses, hsince, hout, hrecorded, hbefore, hret>>

rateVars == <<ltokens, ladmitted, lrejected, lout>>

periodVars == <<qstate, qfailures, qsuccesses, qsince, qpc, qstale>>

stepVars == <<ubackend, ucurrent, upc, ustep, ulocal>>

pagesVars == <<vlessons, vcache, vlast>>

moreVars == <<searchVars, versionVars, parseVars, checkVars, httpVars, rateVars, periodVars, stepVars, pagesVars>>

laterVars == <<cmdVars, confVars, nodeVars, statsVars, moreVars>>

restVars == <<listVars, retryVars, laterVars>>

vars == <<backend, now, heap, lessons, collection, mpc, mid, mcur, mattempt,
          state, failureCount, successCount, sinceLastStateChange, cpc, cresult,
          closedRun, halfOpenSuccesses, sinceOpened, openedFrom, trial, notified,
          instances, containers, deleted, nextId, dpc, dcall, dresult,
          bstore, cache, kpc, kkey, kval, kresult, cachedBefore, kaffected,
          llessons, lresult, lsweep,
          rpc, rattempt, rerr, rinvoked, rrecorded,
          vlesson, vstatus, vexec,
          iconf, ictx, iout,
          hnames, hconf, hlast,
          stype, spc, scache, sret, semitted, srow,
          qstore, qlesson, qopts, qfound,
          glesson, gnow, greq, gres, gstamps, gtitles,
          pkind, psteps, pcur, plast, pn,
          yroute, ygiven, yexpected, yout, yfail, yresp,
          hwrap, hstate, hfailures, hsuccesses, hsince, hout, hrecorded, hbefore, hret,
          ltokens, ladmitted, lrejected, lout,
          qstate, qfailures, qsuccesses, qsince, qpc, qstale,
          ubackend, ucurrent, upc, ustep, ulocal,
          vlessons, vcache, vlast>>

(***************************************************************************)
(* Bounds of the model.                                                    *)
(***************************************************************************)
MaxVersion == 3
MaxClock == 1
NumWriters == 2
NumCallers == 2
MaxCount == 3
FailureThreshold == 2
HalfOpenSuccessThreshold == 2
ResetTimeout == 1
MaxContainers == 3
NumGoroutines == 2
MaxLessonVersion == 2
IntBits == 4
MaxCmdLen == 2
MaxNode == 4
MaxBlocks == 3
NumSteps == 2
MaxCurrentStep == 4

Ptrs == {"p1", "p2"}
NilPtr == "nil"
Writers == 1..NumWriters
Callers == 1..NumCallers
NoCaller == 0

LessonIDs == {"a", "u1"}
TagNames == {"t1"}
Categories == {"c1"}
Summaries == {"edit"}
InputVersions == {0, 2}

(***************************************************************************)
(* Lesson values.                                                          *)
(***************************************************************************)
\* lesson.VersionInfo
VersionInfo(v, ts, summary) == [Version |-> v, Timestamp |-> ts, ChangeSummary |-> summary]

\* a lesson.Lesson as a caller builds it before handing it to a store
InputLesson(id, v) ==
    [ID |-> id, Version |-> v, VersionHistory |-> <<>>, UpdatedAt |-> 0,
     Tags |-> <<>>, Category |-> ""]

\* the absent document of the collection
NoDoc == [ID |-> "", Version |-> 0, VersionHistory |-> <<>>, UpdatedAt |-> 0,
          Tags |-> <<>>, Category |-> "none"]

\* what DeleteOne leaves: the id of a deleted document is never generated again
Tombstone == [ID |-> "", Version |-> 0, VersionHistory |-> <<>>, UpdatedAt |-> 0,
              Tags |-> <<>>, Category |-> "deleted"]

\* uuid.New().String(): an id no lesson has or had
FreshIDs(used) == LessonIDs \ used

HeapIDs == {heap[p].ID : p \in Ptrs}
MemKeys == {i \in LessonIDs : lessons[i] # NilPtr}
MongoKeys == {i \in LessonIDs : collection[i] \notin {NoDoc, Tombstone}}
MongoUsedIDs == {i \in LessonIDs : collection[i] # NoDoc}

SeqContains(s, x) == \E i \in 1..Len(s) : s[i] = x


(***************************************************************************)
(* The DinD provisioner before any call.                                   *)
(***************************************************************************)
Sessions == {"s1", "s2"}

\* a hostname: fmt.Sprintf("node%d", n) is <<"node", n>>, a given name is <<name, 0>>
NodeName(n) == <<"node", n>>
NoHostname == <<"", 0>>
NoInstance == [Name |-> 0, SessionId |-> "", Hostname |-> NoHostname, Image |-> ""]

DinDIdleInit ==
    /\ instances = {}
    /\ containers = {}
    /\ deleted = {}
    /\ nextId = 0
    /\ dpc = [s \in Sessions |-> "idle"]
    /\ dcall = [s \in Sessions |-> NoInstance]
    /\ dresult = [s \in Sessions |-> "none"]

(***************************************************************************)
(* The cached lesson store before any call.                                *)
(***************************************************************************)
Goroutines == 1..NumGoroutines
CachedIDs == <<"a">>
CachedIDSet == {CachedIDs[i] : i \in 1..Len(CachedIDs)}
Pages == {1}
PageSizes == {1}
ListOptions == [Page : Pages, PageSize : PageSizes]

\* cache keys: "lesson:" + id, "lessons:all", and generateListCacheKey(opts),
\* which is built from opts.Page and opts.PageSize
LessonKey(id) == <<"lesson:", id, 0, 0>>
AllKey == <<"lessons:all", "", 0, 0>>
generateListCacheKey(opts) == <<"lessons:list:page:", "", opts.Page, opts.PageSize>>
ListKeys == {generateListCacheKey(o) : o \in ListOptions}
CacheKeys == {LessonKey(id) : id \in CachedIDSet} \cup {AllKey} \cup ListKeys

NoValue == [Items |-> <<>>, TotalItems |-> 0]
NoEntry == [Present |-> FALSE, Value |-> NoValue]

CacheIdleInit ==
    /\ bstore = [id \in CachedIDSet |-> 0]
    /\ cache = [k \in CacheKeys |-> NoEntry]
    /\ kpc = [t \in Goroutines |-> "idle"]
    /\ kkey = [t \in Goroutines |-> AllKey]
    /\ kval = [t \in Goroutines |-> NoValue]
    /\ kresult = [t \in Goroutines |-> "none"]
    /\ cachedBefore = [t \in Goroutines |-> {}]
    /\ kaffected = [t \in Goroutines |-> {}]

(***************************************************************************)
(* ListLessons before any call.                                            *)
(***************************************************************************)
NoSort == <<"", 0>>
NoFilter == <<"", "">>
NoListOptions == [Page |-> 0, PageSize |-> 0, Sort |-> NoSort, Filter |-> NoFilter]
NoListResult == [Items |-> <<>>, TotalItems |-> 0, TotalPages |-> 0, Page |-> 0,
                 PageSize |-> 0, Err |-> "none"]
NoSweep == [Next |-> 0, Opts |-> NoListOptions, Concat |-> <<>>, TotalPages |-> 0]

ListIdleInit ==
    /\ llessons = {}
    /\ lresult = [Opts |-> NoListOptions, Result |-> NoListResult]
    /\ lsweep = NoSweep

(***************************************************************************)
(* withRetry before any call.                                              *)
(***************************************************************************)
\* the goroutines that call withRetry
RetryCallers == {1, 2}

RetryIdleInit ==
    /\ rpc = [c \in RetryCallers |-> "idle"]
    /\ rattempt = [c \in RetryCallers |-> 0]
    /\ rerr = [c \in RetryCallers |-> "none"]
    /\ rinvoked = [c \in RetryCallers |-> 0]
    /\ rrecorded = [c \in RetryCallers |-> 0]

(***************************************************************************)
(* Lesson commands before any request.                                     *)
(***************************************************************************)
\* no command: no lesson stored, nothing executed
NoCommand == <<"none">>

CmdIdleInit ==
    /\ vlesson = NoCommand
    /\ vstatus = 0
    /\ vexec = NoCommand

(***************************************************************************)
(* Image and resource limits of a new instance, before InstanceNew.        *)
(***************************************************************************)
\* MaxProcesses, MaxMemoryMB and StorageSize; 0 and "" are "not set"
NoLimits == [MaxProcesses |-> 0, MaxMemoryMB |-> 0, StorageSize |-> ""]

NoConf == [ImageName |-> "none", Limits |-> NoLimits]

\* conf.LessonCtx is nil, or LessonGet did not return the lesson
NoLessonCtx == [Kind |-> "none", HasContainers |-> FALSE,
                Primary |-> [Image |-> "", Limits |-> NoLimits],
                Step    |-> [Image |-> "", Limits |-> NoLimits],
                Lesson  |-> [DefaultImage |-> "", Limits |-> NoLimits]]

ConfIdleInit ==
    /\ iconf = [ImageName |-> "", Limits |-> NoLimits]
    /\ ictx = NoLessonCtx
    /\ iout = NoConf

(***************************************************************************)
(* Hostname of a new instance, before InstanceNew.                         *)
(***************************************************************************)
NodeIdleInit ==
    /\ hnames = {}
    /\ hconf = NoHostname
    /\ hlast = NoHostname

(***************************************************************************)
(* CollectStats before any run.                                            *)
(***************************************************************************)
StatsInstances == {"i1", "i2"}

\* instance.SessionId
StatsSessionOf(i) == "s1"

NoRow == [Session |-> "", Instance |-> "", Mem |-> "", Cpu |-> ""]

StatsIdle ==
    /\ spc = [i \in StatsInstances |-> "idle"]
    /\ scache = {}
    /\ sret = [i \in StatsInstances |-> "none"]
    /\ semitted = [i \in StatsInstances |-> 0]
    /\ srow = [i \in StatsInstances |-> NoRow]

StatsIdleInit ==
    /\ stype = [i \in StatsInstances |-> "dind"]
    /\ StatsIdle

(***************************************************************************)
(* SearchLessons before any search.                                        *)
(***************************************************************************)
NoSearchOptions == [Categories |-> {}, Tags |-> {}, RequiredTags |-> {}]

SearchIdleInit ==
    /\ qstore = "memory"
    /\ qlesson = [Category |-> "", Tags |-> {}]
    /\ qopts = NoSearchOptions
    /\ qfound = "none"

(***************************************************************************)
(* GetLessonVersion before any call.                                       *)
(***************************************************************************)
NoVersionResult == [Err |-> "none", Lesson |-> NoDoc]

VersionIdleInit ==
    /\ glesson = NoDoc
    /\ gnow = 0
    /\ greq = 0
    /\ gres = NoVersionResult
    /\ gstamps = <<>>
    /\ gtitles = <<>>

(***************************************************************************)
(* The markdown parsers before any block.                                  *)
(***************************************************************************)
NoBlock == [Kind |-> "none", Lines |-> <<>>, Text |-> <<>>]

ParseIdleInit ==
    /\ pkind = "Parser"
    /\ psteps = <<>>
    /\ pcur = 0
    /\ plast = NoBlock
    /\ pn = 0

(***************************************************************************)
(* The step handlers before any request.                                   *)
(***************************************************************************)
CheckIdleInit ==
    /\ yroute = "complete"
    /\ ygiven = ""
    /\ yexpected = <<>>
    /\ yout = <<>>
    /\ yfail = FALSE
    /\ yresp = "none"

(***************************************************************************)
(* The breaker-wrapped HTTP client before any request.                     *)
(***************************************************************************)
NoResponse == [Err |-> FALSE, StatusCode |-> 0]

NoBreaker == [State |-> "none", Failures |-> 0, Successes |-> 0]

HTTPIdleInit ==
    /\ hwrap = "client"
    /\ hstate = "Closed"
    /\ hfailures = 0
    /\ hsuccesses = 0
    /\ hsince = 0
    /\ hout = NoResponse
    /\ hrecorded = "none"
    /\ hbefore = NoBreaker
    /\ hret = "none"

(***************************************************************************)
(* The rate-limiting middleware before any request.                        *)
(***************************************************************************)
\* time.Second, in milliseconds
Second == 1000

\* rate.Every(interval): the limit, in events per second, that leaves at
\* least interval between two events
Every(interval) == Second \div interval

\* the second argument of rate.NewLimiter
Burst == 10

\* rejected requests counted per second
MaxRejected == 5

RateIdleInit ==
    /\ ltokens = Burst
    /\ ladmitted = 0
    /\ lrejected = 0
    /\ lout = "none"

(***************************************************************************)
(* The breaker before any call, for the calls in flight across periods.    *)
(***************************************************************************)
PeriodIdleInit ==
    /\ qstate = "Closed"
    /\ qfailures = 0
    /\ qsuccesses = 0
    /\ qsince = 0
    /\ qpc = [c \in Callers |-> "idle"]
    /\ qstale = [c \in Callers |-> FALSE]

(***************************************************************************)
(* Lesson progress before any request.                                     *)
(***************************************************************************)
StepIdleInit ==
    /\ ubackend = "memory"
    /\ ucurrent = 0
    /\ upc = [r \in Goroutines |-> "idle"]
    /\ ustep = [r \in Goroutines |-> 0]
    /\ ulocal = [r \in Goroutines |-> 0]

(***************************************************************************)
(* The cached store before any listing.                                    *)
(***************************************************************************)
PagesIdleInit ==
    /\ vlessons = {}
    /\ vcache = <<>>
    /\ vlast = [Opts |-> NoListOptions, Result |-> NoListResult]

\* the components added after CollectStats, before any call
MoreIdleInit ==
    /\ SearchIdleInit
    /\ VersionIdleInit
    /\ ParseIdleInit
    /\ CheckIdleInit
    /\ HTTPIdleInit
    /\ RateIdleInit
    /\ PeriodIdleInit
    /\ StepIdleInit
    /\ PagesIdleInit

\* the components that follow withRetry, before any call
LaterIdleInit ==
    /\ CmdIdleInit
    /\ ConfIdleInit
    /\ NodeIdleInit
    /\ StatsIdleInit
    /\ MoreIdleInit

\* the components that follow the cached store, before any call
RestIdleInit ==
    /\ ListIdleInit
    /\ RetryIdleInit
    /\ LaterIdleInit

(***************************************************************************)
(* Circuit breaker.                                                        *)
(*                                                                         *)
(* A caller runs Execute: AllowRequest, then fn, then RecordResult.         *)
(* RecordResult and Reset run under cb.mutex.Lock(); AllowRequest reads     *)
(* under cb.mutex.RLock() and, to move Open -> HalfOpen, releases the read  *)
(* lock and calls setState with no lock held, so the statements of that     *)
(* setState interleave with every other caller's steps.                     *)
(*                                                                         *)
(* cpc:  "idle"                                                            *)
(*       "ar_locked"   AllowRequest holds the read lock                     *)
(*       "ss_check" "ss_state" "ss_time" "ss_fc" "ss_sc"                    *)
(*                     the statements of the unlocked setState(HalfOpen)    *)
(*       "ar_relock"   AllowRequest re-acquires the read lock to return     *)
(*       "fn"          the operation is running                             *)
(*       "rr_wait"     RecordResult is about to take the write lock         *)
(*       "rr_locked"   RecordResult holds the write lock                    *)
(*       "reset_locked" Reset holds the write lock                          *)
(***************************************************************************)
CBStates == {"Closed", "Open", "HalfOpen"}

\* cb.mutex: who holds it
WriteLockHeld == \E c \in Callers : cpc[c] \in {"rr_locked", "reset_locked"}
ReadLockHolders == {c \in Callers : cpc[c] = "ar_locked"}

\* no notification yet
NoNotification == <<"none", "">>

CBIdleInit ==
    /\ state = "Closed"
    /\ failureCount = 0
    /\ successCount = 0
    /\ sinceLastStateChange = 0
    /\ cpc = [c \in Callers |-> "idle"]
    /\ cresult = [c \in Callers |-> "none"]
    /\ closedRun = 0
    /\ halfOpenSuccesses = 0
    /\ sinceOpened = 0
    /\ openedFrom = "none"
    /\ trial = NoCaller
    /\ notified = NoNotification

CBOthersIdle == UNCHANGED <<storeVars, dindVars, cacheVars, restVars>>

\* the history variables follow a step that recorded kind ("failure", "success"
\* or "none") and took the breaker from state to state'
History(kind, c) ==
    /\ closedRun' =
          IF state' = "Closed" /\ state # "Closed" THEN 0
          ELSE IF state # "Closed" THEN 0
          ELSE IF kind = "failure" THEN closedRun + 1
          ELSE IF kind = "success" THEN 0
          ELSE closedRun
    /\ halfOpenSuccesses' =
          IF state' = "HalfOpen" /\ state # "HalfOpen" THEN 0
          ELSE IF state # "HalfOpen" THEN (IF state' = "Open" THEN halfOpenSuccesses ELSE 0)
          ELSE IF kind = "success" THEN halfOpenSuccesses + 1
          ELSE halfOpenSuccesses
    /\ openedFrom' =
          IF state' # "Open" THEN "none"
          ELSE IF state # "Open" THEN state
          ELSE openedFrom
    /\ sinceOpened' =
          IF state' # "Open" THEN 0
          ELSE IF state # "Open" THEN 0
          ELSE sinceOpened
    /\ trial' =
          IF state' # "HalfOpen" THEN NoCaller
          ELSE IF state # "HalfOpen" THEN c
          ELSE IF kind # "none" /\ trial = c THEN NoCaller
          ELSE trial

HistoryUnchanged == UNCHANGED <<closedRun, halfOpenSuccesses, sinceOpened, openedFrom, trial,
                               notified>>

\* the end of setState once it is past its first check: go cb.onStateChange(cb.name,
\* oldState, newState), with whatever oldState was read
NotifyStateChange(oldState, newState) ==
    notified' = <<oldState, newState>>

\* setState under the write lock: it returns at its first check, or changes the
\* state and starts the observer's goroutine
NotifyIfChanged ==
    IF state' # state THEN NotifyStateChange(state, state')
    ELSE UNCHANGED notified

\* a comparison that lets an Open breaker promote whatever time has passed
TimeoutElapsedAtOnce(since) == since >= 0

\* time.Since(cb.lastStateChange) > cb.resetTimeout
TimeoutElapsed(since) == since > ResetTimeout

\* Execute is called: AllowRequest takes the read lock
AllowRequestRLock(c) ==
    /\ cpc[c] = "idle"
    /\ ~WriteLockHeld
    /\ cpc' = [cpc EXCEPT ![c] = "ar_locked"]
    /\ cresult' = [cresult EXCEPT ![c] = "none"]
    /\ UNCHANGED <<state, failureCount, successCount, sinceLastStateChange>>
    /\ HistoryUnchanged
    /\ CBOthersIdle

\* the switch of AllowRequest, under the read lock
AllowRequestSwitch(c) ==
    /\ cpc[c] = "ar_locked"
    /\ IF state = "Open"
       THEN IF TimeoutElapsed(sinceLastStateChange)
            THEN \* RUnlock, then setState(StateHalfOpen) without the lock
                 /\ cpc' = [cpc EXCEPT ![c] = "ss_check"]
                 /\ UNCHANGED cresult
            ELSE \* return false: Execute returns ErrCircuitOpen, fn is not called
                 /\ cpc' = [cpc EXCEPT ![c] = "idle"]
                 /\ cresult' = [cresult EXCEPT ![c] = "ErrCircuitOpen"]
       ELSE \* Closed and HalfOpen: return true, Execute calls fn
            /\ cpc' = [cpc EXCEPT ![c] = "fn"]
            /\ UNCHANGED cresult
    /\ UNCHANGED <<state, failureCount, successCount, sinceLastStateChange>>
    /\ HistoryUnchanged
    /\ CBOthersIdle

\* setState(StateHalfOpen), no lock held: if cb.state == newState { return }
SetStateCheck(c) ==
    /\ cpc[c] = "ss_check"
    /\ cpc' = [cpc EXCEPT ![c] = IF state = "HalfOpen" THEN "ar_relock" ELSE "ss_state"]
    /\ UNCHANGED <<state, failureCount, successCount, sinceLastStateChange, cresult>>
    /\ HistoryUnchanged
    /\ CBOthersIdle

\* cb.state = newState
SetStateWriteState(c) ==
    /\ cpc[c] = "ss_state"
    /\ state' = "HalfOpen"
    /\ cpc' = [cpc EXCEPT ![c] = "ss_time"]
    /\ UNCHANGED <<failureCount, successCount, sinceLastStateChange, cresult>>
    /\ History("none", c)
    /\ NotifyStateChange(state, "HalfOpen")
    /\ CBOthersIdle

\* cb.lastStateChange = time.Now()
SetStateWriteTime(c) ==
    /\ cpc[c] = "ss_time"
    /\ sinceLastStateChange' = 0
    /\ cpc' = [cpc EXCEPT ![c] = "ss_fc"]
    /\ UNCHANGED <<state, failureCount, successCount, cresult>>
    /\ HistoryUnchanged
    /\ CBOthersIdle

\* cb.failureCount = 0
SetStateResetFailures(c) ==
    /\ cpc[c] = "ss_fc"
    /\ failureCount' = 0
    /\ cpc' = [cpc EXCEPT ![c] = "ss_sc"]
    /\ UNCHANGED <<state, successCount, sinceLastStateChange, cresult>>
    /\ HistoryUnchanged
    /\ CBOthersIdle

\* cb.successCount = 0, and setState returns
SetStateResetSuccesses(c) ==
    /\ cpc[c] = "ss_sc"
    /\ successCount' = 0
    /\ cpc' = [cpc EXCEPT ![c] = "ar_relock"]
    /\ UNCHANGED <<state, failureCount, sinceLastStateChange, cresult>>
    /\ HistoryUnchanged
    /\ CBOthersIdle

\* cb.mutex.RLock() after setState, return true, deferred RUnlock: Execute calls fn
AllowRequestRelock(c) ==
    /\ cpc[c] = "ar_relock"
    /\ ~WriteLockHeld
    /\ cpc' = [cpc EXCEPT ![c] = "fn"]
    /\ UNCHANGED <<state, failureCount, successCount, sinceLastStateChange, cresult>>
    /\ HistoryUnchanged
    /\ CBOthersIdle

\* fn returns err: nil or an error
FnReturns(c, err) ==
    /\ cpc[c] = "fn"
    /\ cresult' = [cresult EXCEPT ![c] = err]
    /\ cpc' = [cpc EXCEPT ![c] = "rr_wait"]
    /\ UNCHANGED <<state, failureCount, successCount, sinceLastStateChange>>
    /\ HistoryUnchanged
    /\ CBOthersIdle

\* RecordResult: cb.mutex.Lock()
RecordResultLock(c) ==
    /\ cpc[c] = "rr_wait"
    /\ ~WriteLockHeld
    /\ ReadLockHolders = {}
    /\ cpc' = [cpc EXCEPT ![c] = "rr_locked"]
    /\ UNCHANGED <<state, failureCount, successCount, sinceLastStateChange, cresult>>
    /\ HistoryUnchanged
    /\ CBOthersIdle

\* a RecordResult whose HalfOpen branch waits for the failure threshold
StateAfterFailureCounted(st, failures) ==
    IF st \in {"Closed", "HalfOpen"} /\ failures >= FailureThreshold THEN "Open"
    ELSE st

\* the state RecordResult hands to setState after a failure (st when it calls none)
StateAfterFailure(st, failures) ==
    IF st = "Closed" /\ failures >= FailureThreshold THEN "Open"
    ELSE IF st = "HalfOpen" THEN "Open"
    ELSE st

\* a RecordResult that never closes the breaker
StateAfterSuccessStays(st, successes) == st

\* the state RecordResult hands to setState after a success (st when it calls none)
StateAfterSuccess(st, successes) ==
    IF st = "HalfOpen" /\ successes >= HalfOpenSuccessThreshold THEN "Closed"
    ELSE st

\* setState(newState) with the write lock held, after the counters became fc and sc
SetStateLocked(newState, fc, sc) ==
    IF state = newState
    THEN /\ failureCount' = fc
         /\ successCount' = sc
         /\ UNCHANGED <<state, sinceLastStateChange>>
    ELSE /\ state' = newState
         /\ sinceLastStateChange' = 0
         /\ failureCount' = 0
         /\ successCount' = 0

\* the body of RecordResult, under the write lock, and the deferred Unlock
RecordResultBody(c) ==
    /\ cpc[c] = "rr_locked"
    /\ failureCount < MaxCount
    /\ successCount < MaxCount
    /\ IF cresult[c] = "err"
       THEN SetStateLocked(StateAfterFailure(state, failureCount + 1), failureCount + 1, 0)
       ELSE SetStateLocked(StateAfterSuccess(state, successCount + 1), 0, successCount + 1)
    /\ cpc' = [cpc EXCEPT ![c] = "idle"]
    /\ UNCHANGED cresult
    /\ History(IF cresult[c] = "err" THEN "failure" ELSE "success", c)
    /\ NotifyIfChanged
    /\ CBOthersIdle

\* Reset: cb.mutex.Lock()
ResetLock(c) ==
    /\ cpc[c] = "idle"
    /\ ~WriteLockHeld
    /\ ReadLockHolders = {}
    /\ cpc' = [cpc EXCEPT ![c] = "reset_locked"]
    /\ UNCHANGED <<state, failureCount, successCount, sinceLastStateChange, cresult>>
    /\ HistoryUnchanged
    /\ CBOthersIdle

\* Reset: setState(StateClosed) and the deferred Unlock
ResetBody(c) ==
    /\ cpc[c] = "reset_locked"
    /\ SetStateLocked("Closed", failureCount, successCount)
    /\ cpc' = [cpc EXCEPT ![c] = "idle"]
    /\ UNCHANGED cresult
    /\ History("none", c)
    /\ NotifyIfChanged
    /\ CBOthersIdle

\* a tick of the clock
CBTick ==
    /\ sinceLastStateChange <= ResetTimeout \/ (state = "Open" /\ sinceOpened <= ResetTimeout)
    /\ sinceLastStateChange' = IF sinceLastStateChange <= ResetTimeout
                               THEN sinceLastStateChange + 1 ELSE sinceLastStateChange
    /\ sinceOpened' = IF state = "Open" /\ sinceOpened <= ResetTimeout
                      THEN sinceOpened + 1 ELSE sinceOpened
    /\ UNCHANGED <<state, failureCount, successCount, cpc, cresult,
                   closedRun, halfOpenSuccesses, openedFrom, trial, notified>>
    /\ CBOthersIdle


(***************************************************************************)
(* MemoryLessonStore.  Every method runs under s.mu, so each is one step.   *)
(* The store keeps the caller's pointer, and GetLesson hands the stored     *)
(* pointer out, so the argument l of a call is any pointer of the heap.     *)
(***************************************************************************)
MemIdle == /\ backend = "memory"
           /\ UNCHANGED <<backend, collection, mpc, mid, mcur, mattempt>>
           /\ UNCHANGED <<cbVars, dindVars, cacheVars, restVars>>

\* the lesson CreateLesson leaves behind the pointer l
CreatedLesson(l, id, t) ==
    [l EXCEPT !.ID = id,
              !.UpdatedAt = t,
              !.Version = 1,
              !.VersionHistory = <<>>,
              !.Category = IF l.Category = "" THEN "Uncategorized" ELSE l.Category]

MemCreateLesson(p) ==
    /\ MemIdle
    /\ \E id \in (IF heap[p].ID = "" THEN FreshIDs(HeapIDs \cup MemKeys) ELSE {heap[p].ID}) :
          /\ heap' = [heap EXCEPT ![p] = CreatedLesson(heap[p], id, now)]
          /\ lessons' = [lessons EXCEPT ![id] = p]
    /\ UNCHANGED now

\* UpdateLesson that bumps the version but keeps the history as it was
UpdatedLessonNoAppend(l, cur, summary, t) ==
    [l EXCEPT !.UpdatedAt = t,
              !.Version = cur.Version + 1,
              !.VersionHistory = cur.VersionHistory]

\* the lesson UpdateLesson leaves behind the pointer l, given the stored lesson cur
UpdatedLesson(l, cur, summary, t) ==
    [l EXCEPT !.UpdatedAt = t,
              !.Version = cur.Version + 1,
              !.VersionHistory = Append(cur.VersionHistory,
                                        VersionInfo(cur.Version, cur.UpdatedAt, summary))]

MemUpdateLesson(id, p, summary) ==
    /\ MemIdle
    /\ lessons[id] # NilPtr
    /\ heap[lessons[id]].Version < MaxVersion
    /\ heap' = [heap EXCEPT ![p] = UpdatedLesson(heap[p], heap[lessons[id]], summary, now)]
    /\ lessons' = [lessons EXCEPT ![id] = p]
    /\ UNCHANGED now

\* UpdateLesson of an id the store does not hold: "lesson not found", no change
MemUpdateLessonNotFound(id) ==
    /\ MemIdle
    /\ lessons[id] = NilPtr
    /\ UNCHANGED <<now, heap, lessons>>

MemDeleteLesson(id) ==
    /\ MemIdle
    /\ lessons[id] # NilPtr
    /\ lessons' = [lessons EXCEPT ![id] = NilPtr]
    /\ UNCHANGED <<now, heap>>

MemAddTag(id, tag) ==
    /\ MemIdle
    /\ lessons[id] # NilPtr
    /\ LET p == lessons[id] IN
         IF SeqContains(heap[p].Tags, tag)
         THEN UNCHANGED heap
         ELSE heap' = [heap EXCEPT ![p].Tags = Append(@, tag), ![p].UpdatedAt = now]
    /\ UNCHANGED <<now, lessons>>

\* RemoveTag: the first match is overwritten by the last element, then the slice is cut
RemovedTag(tags, tag) ==
    IF ~SeqContains(tags, tag) THEN tags
    ELSE LET i == CHOOSE k \in 1..Len(tags) :
                     tags[k] = tag /\ \A j \in 1..(k - 1) : tags[j] # tag
         IN SubSeq([tags EXCEPT ![i] = tags[Len(tags)]], 1, Len(tags) - 1)

MemRemoveTag(id, tag) ==
    /\ MemIdle
    /\ lessons[id] # NilPtr
    /\ LET p == lessons[id] IN
         IF SeqContains(heap[p].Tags, tag)
         THEN heap' = [heap EXCEPT ![p].Tags = RemovedTag(@, tag), ![p].UpdatedAt = now]
         ELSE UNCHANGED heap
    /\ UNCHANGED <<now, lessons>>

MemSetCategory(id, category) ==
    /\ MemIdle
    /\ lessons[id] # NilPtr
    /\ heap' = [heap EXCEPT ![lessons[id]].Category = category,
                            ![lessons[id]].UpdatedAt = now]
    /\ UNCHANGED <<now, lessons>>

\* the passage of time between calls
StoreTick ==
    /\ now < MaxClock
    /\ now' = now + 1
    /\ UNCHANGED <<backend, heap, lessons, collection, mpc, mid, mcur, mattempt>>
    /\ UNCHANGED <<cbVars, dindVars, cacheVars, restVars>>

(***************************************************************************)
(* MongoLessonStore.  Documents are values (BSON), one per id.  CreateLesson *)
(* and DeleteLesson issue one database call; UpdateLesson issues two,       *)
(* FindOne and then UpdateOne, inside the retry loop of withRetry, and      *)
(* other goroutines' calls may run between them.                            *)
(***************************************************************************)
maxRetries == 3

MongoIdle == /\ backend = "mongo"
             /\ UNCHANGED <<backend, heap, lessons>>
             /\ UNCHANGED <<cbVars, dindVars, cacheVars, restVars>>

MongoCreateLesson(v) ==
    /\ MongoIdle
    /\ \E id \in FreshIDs(MongoUsedIDs) :
          collection' = [collection EXCEPT ![id] =
                            [InputLesson(id, v) EXCEPT !.UpdatedAt = now,
                                                       !.Version = 1,
                                                       !.VersionHistory = <<>>]]
    /\ UNCHANGED <<now, mpc, mid, mcur, mattempt>>

MongoDeleteLesson(id) ==
    /\ MongoIdle
    /\ collection' = [collection EXCEPT ![id] = IF @ = NoDoc THEN NoDoc ELSE Tombstone]
    /\ UNCHANGED <<now, mpc, mid, mcur, mattempt>>

\* UpdateLesson is called: withRetry starts its first attempt
MongoUpdateLesson(t, id) ==
    /\ MongoIdle
    /\ mpc[t] = "idle"
    /\ mpc' = [mpc EXCEPT ![t] = "findOne"]
    /\ mid' = [mid EXCEPT ![t] = id]
    /\ UNCHANGED <<now, collection, mcur, mattempt>>

\* FindOne(id).Decode(&currentLesson) finds the document
MongoFindOne(t) ==
    /\ MongoIdle
    /\ mpc[t] = "findOne"
    /\ mid[t] \in MongoKeys
    /\ collection[mid[t]].Version < MaxVersion
    /\ mcur' = [mcur EXCEPT ![t] = collection[mid[t]]]
    /\ mpc' = [mpc EXCEPT ![t] = "updateOne"]
    /\ UNCHANGED <<now, collection, mid, mattempt>>

\* FindOne finds nothing: the wrapped mongo.ErrNoDocuments is retryable, so the
\* loop of withRetry tries again until maxRetries is used up, then returns it
MongoFindOneNoDocument(t) ==
    /\ MongoIdle
    /\ mpc[t] = "findOne"
    /\ mid[t] \notin MongoKeys
    /\ IF mattempt[t] < maxRetries
       THEN /\ mattempt' = [mattempt EXCEPT ![t] = @ + 1]
            /\ UNCHANGED mpc
       ELSE /\ mpc' = [mpc EXCEPT ![t] = "idle"]
            /\ mattempt' = [mattempt EXCEPT ![t] = 0]
    /\ mid' = [mid EXCEPT ![t] = IF mpc'[t] = "idle" THEN "" ELSE @]
    /\ UNCHANGED <<now, collection, mcur>>

\* UpdateOne({id}, {$set: l}) with l versioned from the lesson FindOne decoded;
\* a filter that matches no document is no error
MongoUpdateOne(t, summary) ==
    /\ MongoIdle
    /\ mpc[t] = "updateOne"
    /\ collection' =
          IF mid[t] \notin MongoKeys THEN collection
          ELSE [collection EXCEPT ![mid[t]] =
                   UpdatedLesson(InputLesson(mid[t], 0), mcur[t], summary, now)]
    /\ mpc' = [mpc EXCEPT ![t] = "idle"]
    /\ mcur' = [mcur EXCEPT ![t] = NoDoc]
    /\ mattempt' = [mattempt EXCEPT ![t] = 0]
    /\ mid' = [mid EXCEPT ![t] = ""]
    /\ UNCHANGED now

(***************************************************************************)
(* The lesson stores' specification.                                       *)
(***************************************************************************)
StoreIdleInit ==
    /\ now = 0
    /\ lessons = [i \in LessonIDs |-> NilPtr]
    /\ collection = [i \in LessonIDs |-> NoDoc]
    /\ mpc = [t \in Writers |-> "idle"]
    /\ mid = [t \in Writers |-> ""]
    /\ mcur = [t \in Writers |-> NoDoc]
    /\ mattempt = [t \in Writers |-> 0]

InitStore ==
    /\ CBIdleInit
    /\ DinDIdleInit
    /\ CacheIdleInit
    /\ RestIdleInit
    /\ backend \in {"memory", "mongo"}
    /\ IF backend = "memory"
       THEN heap \in [Ptrs -> {InputLesson(i, v) : i \in {"", "a"}, v \in InputVersions}]
       ELSE heap = [p \in Ptrs |-> InputLesson("", 0)]
    /\ StoreIdleInit

NextStore ==
    \/ \E p \in Ptrs : MemCreateLesson(p)
    \/ \E id \in LessonIDs, p \in Ptrs, s \in Summaries : MemUpdateLesson(id, p, s)
    \/ \E id \in LessonIDs : MemUpdateLessonNotFound(id)
    \/ \E id \in LessonIDs : MemDeleteLesson(id)
    \/ \E id \in LessonIDs, tag \in TagNames : MemAddTag(id, tag)
    \/ \E id \in LessonIDs, tag \in TagNames : MemRemoveTag(id, tag)
    \/ \E id \in LessonIDs, c \in Categories : MemSetCategory(id, c)
    \/ \E v \in InputVersions : MongoCreateLesson(v)
    \/ \E id \in LessonIDs : MongoDeleteLesson(id)
    \/ \E t \in Writers, id \in LessonIDs : MongoUpdateLesson(t, id)
    \/ \E t \in Writers : MongoFindOne(t)
    \/ \E t \in Writers : MongoFindOneNoDocument(t)
    \/ \E t \in Writers, s \in Summaries : MongoUpdateOne(t, s)
    \/ StoreTick

SpecStore == InitStore /\ [][NextStore]_vars

(***************************************************************************)
(* The circuit breaker's specification.                                    *)
(***************************************************************************)
InitCB ==
    /\ CBIdleInit
    /\ DinDIdleInit
    /\ CacheIdleInit
    /\ RestIdleInit
    /\ backend = "memory"
    /\ heap = [p \in Ptrs |-> InputLesson("", 0)]
    /\ StoreIdleInit

NextCB ==
    \/ \E c \in Callers : AllowRequestRLock(c)
    \/ \E c \in Callers : AllowRequestSwitch(c)
    \/ \E c \in Callers : SetStateCheck(c)
    \/ \E c \in Callers : SetStateWriteState(c)
    \/ \E c \in Callers : SetStateWriteTime(c)
    \/ \E c \in Callers : SetStateResetFailures(c)
    \/ \E c \in Callers : SetStateResetSuccesses(c)
    \/ \E c \in Callers : AllowRequestRelock(c)
    \/ \E c \in Callers, err \in {"nil", "err"} : FnReturns(c, err)
    \/ \E c \in Callers : RecordResultLock(c)
    \/ \E c \in Callers : RecordResultBody(c)
    \/ \E c \in Callers : ResetLock(c)
    \/ \E c \in Callers : ResetBody(c)
    \/ CBTick

SpecCB == InitCB /\ [][NextCB]_vars

\* a step of caller c inside Execute with an operation that succeeds, or the
\* body of a Reset that holds the lock
ExecuteStep(c) ==
    \/ AllowRequestRLock(c) \/ AllowRequestSwitch(c) \/ SetStateCheck(c)
    \/ SetStateWriteState(c) \/ SetStateWriteTime(c) \/ SetStateResetFailures(c)
    \/ SetStateResetSuccesses(c) \/ AllowRequestRelock(c) \/ FnReturns(c, "nil")
    \/ RecordResultLock(c) \/ RecordResultBody(c) \/ ResetBody(c)

\* time passes; every caller keeps calling Execute, its goroutine is scheduled,
\* its operation returns, and it is not starved of cb.mutex
LiveCB ==
    /\ WF_vars(CBTick)
    /\ \A c \in Callers : SF_vars(ExecuteStep(c))

SpecCBLive == SpecCB /\ LiveCB

(***************************************************************************)
(* DinD provisioner: InstanceNew and InstanceDelete.                       *)
(*                                                                         *)
(* The orchestrator (pwd.InstanceNew) serializes the calls of one session   *)
(* under the session lock, calls the provisioner and persists the instance  *)
(* it returns; dpc[s] is the position of the one call that holds session s: *)
(*   "idle"      no call holds the session                                  *)
(*   "created"   ContainerCreate succeeded, ContainerIPs is next            *)
(*   "returned"  the provisioner returned the instance, InstancePut is next *)
(* The lesson context of a call is either absent or a step with a primary   *)
(* container; resource limits are not part of this model.                   *)
(***************************************************************************)
ConfImages == {"", "conf-img"}
ConfHostnames == {NoHostname, NodeName(1)}
InstanceConfigs == [ImageName : ConfImages, Hostname : ConfHostnames]

\* the primary container of the current lesson step; Present = FALSE: no lesson context
NoPrimary == [Present |-> FALSE, Image |-> "", Hostname |-> NoHostname]
PrimaryContainers ==
    {NoPrimary} \cup [Present : {TRUE}, Image : {"primary-img"}, Hostname : {NoHostname, <<"db", 0>>}]

\* the session lock of the orchestrator is free
SessionLockFree(s) == dpc[s] = "idle"

\* conf after the lesson context was applied: the primary container's image
\* replaces conf.ImageName, its hostname replaces conf.Hostname when it has one
ApplyPrimaryContainer(conf, primary) ==
    IF primary.Present
    THEN [ImageName |-> primary.Image,
          Hostname  |-> IF primary.Hostname # NoHostname THEN primary.Hostname
                        ELSE conf.Hostname]
    ELSE conf

\* d.storage.InstanceFindBySessionId(session.Id), as the set of hostnames
SessionHostnames(s) == {i.Hostname : i \in {j \in instances : j.SessionId = s}}

\* checkHostnameExists over the instances of the session
checkHostnameExists(hostname, hostnames) == hostname \in hostnames

\* a mutant: the number of instances plus one
NodeAfterCount(hostnames) == NodeName(Cardinality(hostnames) + 1)

\* for i := 1; ; i++ { nodeName = "node<i>"; if !exists { break } }
LowestFreeNode(hostnames) ==
    NodeName(CHOOSE n \in 1..(Cardinality(hostnames) + 1) :
                /\ ~checkHostnameExists(NodeName(n), hostnames)
                /\ \A m \in 1..(n - 1) : checkHostnameExists(NodeName(m), hostnames))

\* the image and hostname ContainerCreate is called with
ResolvedImage(conf, primary) ==
    IF ApplyPrimaryContainer(conf, primary).ImageName = ""
    THEN "playground-img"
    ELSE ApplyPrimaryContainer(conf, primary).ImageName

ResolvedHostname(s, conf, primary) ==
    IF ApplyPrimaryContainer(conf, primary).Hostname = NoHostname
    THEN LowestFreeNode(SessionHostnames(s))
    ELSE ApplyPrimaryContainer(conf, primary).Hostname

\* InstanceNew returns an error before any container exists: PlaygroundGet,
\* InstanceFindBySessionId, GetForSession or ContainerCreate failed
DinDInstanceNewFails(s, conf, primary, why) ==
    /\ SessionLockFree(s)
    /\ why = "playground_err" => ApplyPrimaryContainer(conf, primary).ImageName = ""
    /\ why = "find_err" => ApplyPrimaryContainer(conf, primary).Hostname = NoHostname
    /\ dresult' = [dresult EXCEPT ![s] = "err"]
    /\ UNCHANGED <<instances, containers, deleted, nextId, dpc, dcall>>
    /\ UNCHANGED <<storeVars, cbVars, cacheVars, restVars>>

\* InstanceNew up to a successful ContainerCreate
DinDContainerCreate(s, conf, primary) ==
    /\ SessionLockFree(s)
    /\ nextId < MaxContainers
    /\ nextId' = nextId + 1
    /\ containers' = containers \cup {nextId + 1}
    /\ dcall' = [dcall EXCEPT ![s] = [Name      |-> nextId + 1,
                                      SessionId |-> s,
                                      Hostname  |-> ResolvedHostname(s, conf, primary),
                                      Image     |-> ResolvedImage(conf, primary)]]
    /\ dpc' = [dpc EXCEPT ![s] = "created"]
    /\ dresult' = [dresult EXCEPT ![s] = "none"]
    /\ UNCHANGED <<instances, deleted>>
    /\ UNCHANGED <<storeVars, cbVars, cacheVars, restVars>>

\* ips, err := dockerClient.ContainerIPs(containerName); on error return nil, err
DinDContainerIPs(s, ok) ==
    /\ dpc[s] = "created"
    /\ IF ok
       THEN /\ dpc' = [dpc EXCEPT ![s] = "returned"]
            /\ UNCHANGED <<dcall, dresult>>
       ELSE /\ dpc' = [dpc EXCEPT ![s] = "idle"]
            /\ dcall' = [dcall EXCEPT ![s] = NoInstance]
            /\ dresult' = [dresult EXCEPT ![s] = "ips_err"]
    /\ UNCHANGED <<instances, containers, deleted, nextId>>
    /\ UNCHANGED <<storeVars, cbVars, cacheVars, restVars>>

\* the orchestrator persists the instance the provisioner returned
PwdInstancePut(s) ==
    /\ dpc[s] = "returned"
    /\ instances' = instances \cup {dcall[s]}
    /\ dpc' = [dpc EXCEPT ![s] = "idle"]
    /\ dcall' = [dcall EXCEPT ![s] = NoInstance]
    /\ dresult' = [dresult EXCEPT ![s] = "ok"]
    /\ UNCHANGED <<containers, deleted, nextId>>
    /\ UNCHANGED <<storeVars, cbVars, cacheVars, restVars>>

\* the orchestrator removes a deleted instance from storage
StorageInstanceDelete(i) == instances \ {i}

\* InstanceDelete: dockerClient.ContainerDelete(instance.Name)
DinDInstanceDelete(s, i) ==
    /\ SessionLockFree(s)
    /\ i \in instances
    /\ i.SessionId = s
    /\ containers' = containers \ {i.Name}
    /\ deleted' = deleted \cup {i.Name}
    /\ instances' = StorageInstanceDelete(i)
    /\ UNCHANGED <<nextId, dpc, dcall, dresult>>
    /\ UNCHANGED <<storeVars, cbVars, cacheVars, restVars>>

StoreNotRunning ==
    /\ backend = "memory"
    /\ heap = [p \in Ptrs |-> InputLesson("", 0)]
    /\ StoreIdleInit

InitDinD ==
    /\ DinDIdleInit
    /\ CacheIdleInit
    /\ RestIdleInit
    /\ CBIdleInit
    /\ StoreNotRunning

NextDinD ==
    \/ \E s \in Sessions, conf \in InstanceConfigs, primary \in PrimaryContainers,
          why \in {"playground_err", "find_err", "factory_err", "create_err"} :
          DinDInstanceNewFails(s, conf, primary, why)
    \/ \E s \in Sessions, conf \in InstanceConfigs, primary \in PrimaryContainers :
          DinDContainerCreate(s, conf, primary)
    \/ \E s \in Sessions, ok \in BOOLEAN : DinDContainerIPs(s, ok)
    \/ \E s \in Sessions : PwdInstancePut(s)
    \/ \E s \in Sessions, i \in instances : DinDInstanceDelete(s, i)

SpecDinD == InitDinD /\ [][NextDinD]_vars

(***************************************************************************)
(* CachedLessonStore over a backing LessonStore and an InMemoryCache.      *)
(*                                                                         *)
(* Every cache.Get, cache.Set, cache.Delete and every call of the backing   *)
(* store is one step (each runs under its own lock); a method of the        *)
(* cached store is a sequence of such steps, and the steps of different     *)
(* goroutines interleave.  kpc:                                             *)
(*   "idle"        no method is running                                     *)
(*   "store_read"  a read missed the cache, the backing store is read next  *)
(*   "cache_set"   the backing store answered, cache.Set is next            *)
(*   "del_lesson"  a mutation succeeded, cache.Delete("lesson:"+id) is next *)
(*   "del_all"     cache.Delete("lessons:all") is next                      *)
(***************************************************************************)
\* the lessons of the backing store b in list order, as <<id, version>>
AllItems(b) ==
    SelectSeq([i \in 1..Len(CachedIDs) |-> <<CachedIDs[i], b[CachedIDs[i]]>>],
              LAMBDA x : x[2] > 0)

\* store.GetLesson(id)
StoreGetLesson(b, id) ==
    IF b[id] > 0 THEN [Items |-> <<<<id, b[id]>>>>, TotalItems |-> 1] ELSE NoValue

\* store.ListAllLessons()
StoreListAllLessons(b) == [Items |-> AllItems(b), TotalItems |-> Len(AllItems(b))]

\* store.ListLessons(opts): the page [start, end) of the lessons
PageStart(b, page, size) ==
    IF (page - 1) * size >= Len(AllItems(b)) THEN 0 ELSE (page - 1) * size

PageEnd(b, page, size) ==
    IF (page - 1) * size >= Len(AllItems(b)) THEN 0
    ELSE IF (page - 1) * size + size > Len(AllItems(b)) THEN Len(AllItems(b))
    ELSE (page - 1) * size + size

StoreListLessons(b, page, size) ==
    [Items      |-> SubSeq(AllItems(b), PageStart(b, page, size) + 1, PageEnd(b, page, size)),
     TotalItems |-> Len(AllItems(b))]

\* what the backing store b returns for the read that fills cache key k
StoreValue(b, k) ==
    IF k[1] = "lesson:" THEN StoreGetLesson(b, k[2])
    ELSE IF k[1] = "lessons:all" THEN StoreListAllLessons(b)
    ELSE StoreListLessons(b, k[3], k[4])

\* the backing store returns an error for the read that fills k (lesson not found)
StoreReadFails(b, k) == k[1] = "lesson:" /\ b[k[2]] = 0

\* the entry under k was replaced or removed: it is no longer the entry any
\* running mutation found in the cache when it began
Forget(keys) == cachedBefore' = [u \in Goroutines |-> cachedBefore[u] \ keys]

CacheOthersIdle == UNCHANGED <<storeVars, cbVars, dindVars, restVars>>

\* GetLesson, ListLessons, ListAllLessons: s.cache.Get(cacheKey)
CachedRead(t, k) ==
    /\ kpc[t] = "idle"
    /\ IF cache[k].Present
       THEN /\ kresult' = [kresult EXCEPT ![t] = "hit"]
            /\ UNCHANGED <<kpc, kkey>>
       ELSE /\ kpc' = [kpc EXCEPT ![t] = "store_read"]
            /\ kkey' = [kkey EXCEPT ![t] = k]
            /\ kresult' = [kresult EXCEPT ![t] = "none"]
    /\ UNCHANGED <<bstore, cache, kval, cachedBefore, kaffected>>
    /\ CacheOthersIdle

\* s.store.GetLesson / ListLessons / ListAllLessons after a miss
CachedReadStore(t) ==
    /\ kpc[t] = "store_read"
    /\ IF StoreReadFails(bstore, kkey[t])
       THEN /\ kpc' = [kpc EXCEPT ![t] = "idle"]
            /\ kkey' = [kkey EXCEPT ![t] = AllKey]
            /\ kresult' = [kresult EXCEPT ![t] = "err"]
            /\ UNCHANGED kval
       ELSE /\ kpc' = [kpc EXCEPT ![t] = "cache_set"]
            /\ kval' = [kval EXCEPT ![t] = StoreValue(bstore, kkey[t])]
            /\ UNCHANGED <<kkey, kresult>>
    /\ UNCHANGED <<bstore, cache, cachedBefore, kaffected>>
    /\ CacheOthersIdle

\* s.cache.Set(cacheKey, value, s.ttl) and return
CachedReadSet(t) ==
    /\ kpc[t] = "cache_set"
    /\ cache' = [cache EXCEPT ![kkey[t]] = [Present |-> TRUE, Value |-> kval[t]]]
    /\ kpc' = [kpc EXCEPT ![t] = "idle"]
    /\ kval' = [kval EXCEPT ![t] = NoValue]
    /\ kkey' = [kkey EXCEPT ![t] = AllKey]
    /\ kresult' = [kresult EXCEPT ![t] = "loaded"]
    /\ Forget({kkey[t]})
    /\ UNCHANGED <<bstore, kaffected>>
    /\ CacheOthersIdle

\* the entry under k expires (Get stops returning it, cleanupExpired removes it)
CacheExpire(k) ==
    /\ cache[k].Present
    /\ cache' = [cache EXCEPT ![k] = NoEntry]
    /\ Forget({k})
    /\ UNCHANGED <<bstore, kpc, kkey, kval, kresult, kaffected>>
    /\ CacheOthersIdle

\* a mutation's call of the backing store succeeded and left it as b
MutationStored(t, b, id, next) ==
    /\ bstore' = b
    /\ kpc' = [kpc EXCEPT ![t] = next]
    /\ kkey' = [kkey EXCEPT ![t] = IF next = "del_lesson" THEN LessonKey(id) ELSE AllKey]
    /\ kresult' = [kresult EXCEPT ![t] = "none"]
    /\ cachedBefore' = [cachedBefore EXCEPT ![t] = {k \in CacheKeys : cache[k].Present}]
    /\ kaffected' = [kaffected EXCEPT ![t] =
                        {k \in CacheKeys : StoreValue(bstore, k) # StoreValue(b, k)}]
    /\ UNCHANGED <<cache, kval>>
    /\ CacheOthersIdle

\* CreateLesson: s.store.CreateLesson(l) succeeded
CachedCreateLesson(t, id) ==
    /\ kpc[t] = "idle"
    /\ bstore[id] = 0
    /\ MutationStored(t, [bstore EXCEPT ![id] = 1], id, "del_all")

\* UpdateLesson: s.store.UpdateLesson(id, l) succeeded
CachedUpdateLesson(t, id) ==
    /\ kpc[t] = "idle"
    /\ bstore[id] > 0
    /\ bstore[id] < MaxLessonVersion
    /\ MutationStored(t, [bstore EXCEPT ![id] = bstore[id] + 1], id, "del_lesson")

\* DeleteLesson: s.store.DeleteLesson(id) succeeded
CachedDeleteLesson(t, id) ==
    /\ kpc[t] = "idle"
    /\ bstore[id] > 0
    /\ MutationStored(t, [bstore EXCEPT ![id] = 0], id, "del_lesson")

\* the backing store returned an error: the mutation returns it, nothing is invalidated
CachedMutationFails(t) ==
    /\ kpc[t] = "idle"
    /\ kresult' = [kresult EXCEPT ![t] = "err"]
    /\ UNCHANGED <<bstore, cache, kpc, kkey, kval, cachedBefore, kaffected>>
    /\ CacheOthersIdle

\* UpdateLesson, DeleteLesson: s.cache.Delete("lesson:" + id)
CachedDeleteLessonKey(t) ==
    /\ kpc[t] = "del_lesson"
    /\ cache' = [cache EXCEPT ![kkey[t]] = NoEntry]
    /\ kpc' = [kpc EXCEPT ![t] = "del_all"]
    /\ kkey' = [kkey EXCEPT ![t] = AllKey]
    /\ Forget({kkey[t]})
    /\ UNCHANGED <<bstore, kval, kresult, kaffected>>
    /\ CacheOthersIdle

\* the keys a mutation deletes last, before it returns nil
InvalidatedLast == {AllKey}

\* CreateLesson, UpdateLesson, DeleteLesson: s.cache.Delete("lessons:all"); return nil
CachedDeleteAllKey(t) ==
    /\ kpc[t] = "del_all"
    /\ cache' = [k \in CacheKeys |-> IF k \in InvalidatedLast THEN NoEntry ELSE cache[k]]
    /\ kpc' = [kpc EXCEPT ![t] = "idle"]
    /\ kresult' = [kresult EXCEPT ![t] = "ok"]
    /\ cachedBefore' = [u \in Goroutines |->
                           IF u = t THEN {} ELSE cachedBefore[u] \ InvalidatedLast]
    /\ kaffected' = [kaffected EXCEPT ![t] = {}]
    /\ kkey' = [kkey EXCEPT ![t] = AllKey]
    /\ UNCHANGED <<bstore, kval>>
    /\ CacheOthersIdle

InitCache ==
    /\ CacheIdleInit
    /\ RestIdleInit
    /\ DinDIdleInit
    /\ CBIdleInit
    /\ StoreNotRunning

NextCache ==
    \/ \E t \in Goroutines, k \in CacheKeys : CachedRead(t, k)
    \/ \E t \in Goroutines : CachedReadStore(t)
    \/ \E t \in Goroutines : CachedReadSet(t)
    \/ \E k \in CacheKeys : CacheExpire(k)
    \/ \E t \in Goroutines, id \in CachedIDSet : CachedCreateLesson(t, id)
    \/ \E t \in Goroutines, id \in CachedIDSet : CachedUpdateLesson(t, id)
    \/ \E t \in Goroutines, id \in CachedIDSet : CachedDeleteLesson(t, id)
    \/ \E t \in Goroutines : CachedMutationFails(t)
    \/ \E t \in Goroutines : CachedDeleteLessonKey(t)
    \/ \E t \in Goroutines : CachedDeleteAllKey(t)

SpecCache == InitCache /\ [][NextCache]_vars

(***************************************************************************)
(* ListLessons of the two stores, as a function of the lessons held, the   *)
(* order the store enumerates them in, and the options.                    *)
(*                                                                         *)
(* Page and PageSize are int64; the model keeps the wrap-around of int64    *)
(* arithmetic at a width of IntBits bits.  The memory store enumerates a    *)
(* Go map, whose iteration order differs from call to call, and sorts with  *)
(* sort.Slice, which is not stable; MongoDB orders documents with equal     *)
(* sort keys arbitrarily.  A call therefore sees any order of the matching  *)
(* lessons that its sort allows.  opts.Sort holds at most one key here.     *)
(***************************************************************************)
MinInt == -(2 ^ (IntBits - 1))
MaxInt == 2 ^ (IntBits - 1) - 1

\* the value of an int64 expression
Wrap(x) == ((x - MinInt) % (2 ^ IntBits)) + MinInt

\* the lessons a store may hold; Title and CreatedAt are ranks in their order
ListLessonPool ==
    { [ID |-> "a", Title |-> 1, CreatedAt |-> 1, Category |-> "c1"],
      [ID |-> "b", Title |-> 1, CreatedAt |-> 2, Category |-> "c1"],
      [ID |-> "c", Title |-> 2, CreatedAt |-> 2, Category |-> "c2"] }

ListStores == {"memory", "mongo"}
ListSorts == {NoSort, <<"title", 1>>, <<"title", -1>>, <<"createdAt", 1>>, <<"createdAt", -1>>}
ListFilters == {NoFilter, <<"category", "c1">>}

\* case "category": if l.Category != v { include = false }
Matches(l, filter) == filter[1] = "category" => l.Category = filter[2]

Matching(ls, filter) == {l \in ls : Matches(l, filter)}

\* the comparator handed to sort.Slice, and the order a MongoDB sort asks for
Less(sort, x, y) ==
    IF sort[1] = "createdAt"
    THEN (IF sort[2] = 1 THEN x.CreatedAt < y.CreatedAt ELSE x.CreatedAt > y.CreatedAt)
    ELSE IF sort[1] = "title"
    THEN (IF sort[2] = 1 THEN x.Title < y.Title ELSE x.Title > y.Title)
    ELSE FALSE

\* every enumeration of a set of lessons
Enumerations(ls) ==
    {f \in [1..Cardinality(ls) -> ls] : \A i, j \in 1..Cardinality(ls) : f[i] = f[j] => i = j}

IsSorted(seq, sort) == \A i, j \in 1..Len(seq) : i < j => ~Less(sort, seq[j], seq[i])

\* the orders in which one call may see the matching lessons
ListOrders(ls, opts) ==
    {f \in Enumerations(Matching(ls, opts.Filter)) : IsSorted(f, opts.Sort)}

\* a / b and a % b of Go for b # 0: the quotient is truncated toward zero
Quo(a, b) ==
    LET q == (IF a < 0 THEN -a ELSE a) \div (IF b < 0 THEN -b ELSE b)
    IN  IF (a < 0) = (b < 0) THEN q ELSE -q

Rem(a, b) == a - b * Quo(a, b)

\* totalPages := totalItems / opts.PageSize; if totalItems%opts.PageSize > 0 { totalPages++ }
TotalPagesOf(totalItems, pageSize) ==
    Quo(totalItems, pageSize) + (IF Rem(totalItems, pageSize) > 0 THEN 1 ELSE 0)

\* MemoryLessonStore.ListLessons: start and end of the page
MemStart(n, opts) ==
    IF Wrap((opts.Page - 1) * opts.PageSize) >= n THEN 0
    ELSE Wrap((opts.Page - 1) * opts.PageSize)

MemEnd(n, opts) ==
    IF Wrap((opts.Page - 1) * opts.PageSize) >= n THEN 0
    ELSE IF Wrap(Wrap((opts.Page - 1) * opts.PageSize) + opts.PageSize) > n THEN n
    ELSE Wrap(Wrap((opts.Page - 1) * opts.PageSize) + opts.PageSize)

\* totalItems / opts.PageSize panics when the page size is 0, and
\* filteredLessons[start:end] panics when start is negative
MemoryListLessons(ordered, opts) ==
    IF opts.PageSize = 0
    THEN [NoListResult EXCEPT !.Err = "panic"]
    ELSE
    [Items      |-> IF MemStart(Len(ordered), opts) < MemEnd(Len(ordered), opts)
                       /\ MemStart(Len(ordered), opts) >= 0
                    THEN SubSeq(ordered, MemStart(Len(ordered), opts) + 1,
                                MemEnd(Len(ordered), opts))
                    ELSE <<>>,
     TotalItems |-> Len(ordered),
     TotalPages |-> TotalPagesOf(Len(ordered), opts.PageSize),
     Page       |-> opts.Page,
     PageSize   |-> opts.PageSize,
     Err        |-> IF MemStart(Len(ordered), opts) < MemEnd(Len(ordered), opts)
                       /\ MemStart(Len(ordered), opts) < 0
                    THEN "panic" ELSE "nil"]

\* MongoLessonStore.ListLessons: skip := (opts.Page - 1) * opts.PageSize
MongoSkip(opts) == Wrap((opts.Page - 1) * opts.PageSize)

\* the page size ListLessons and SearchLessons fall back to
DefaultPageSize == 20

\* if opts.Page < 1 { opts.Page = 1 }; if opts.PageSize < 1 { opts.PageSize = 20 }
WithDefaultPaging(opts) ==
    [opts EXCEPT !.Page = IF opts.Page < 1 THEN 1 ELSE opts.Page,
                 !.PageSize = IF opts.PageSize < 1 THEN DefaultPageSize ELSE opts.PageSize]

\* Find with SetSkip(skip) and SetLimit(opts.PageSize); the server rejects a negative skip
MongoListLessons(ordered, given) ==
    LET opts == WithDefaultPaging(given) IN
    IF MongoSkip(opts) < 0
    THEN [NoListResult EXCEPT !.Err = "error"]
    ELSE [Items      |-> SubSeq(ordered, MongoSkip(opts) + 1,
                                IF MongoSkip(opts) + opts.PageSize > Len(ordered)
                                THEN Len(ordered) ELSE MongoSkip(opts) + opts.PageSize),
          TotalItems |-> Len(ordered),
          TotalPages |-> TotalPagesOf(Len(ordered), opts.PageSize),
          Page       |-> opts.Page,
          PageSize   |-> opts.PageSize,
          Err        |-> "nil"]

ListLessonsOf(store, ordered, opts) ==
    IF store = "memory" THEN MemoryListLessons(ordered, opts) ELSE MongoListLessons(ordered, opts)

ListOthersIdle == UNCHANGED <<storeVars, cbVars, dindVars, cacheVars, retryVars, laterVars>>

\* the client has made no call yet
ListClientIdle ==
    /\ lresult = [Opts |-> NoListOptions, Result |-> NoListResult]
    /\ lsweep = NoSweep

\* one ListLessons call
ListLessons(store, opts) ==
    /\ ListClientIdle
    /\ \E ordered \in ListOrders(llessons, opts) :
          lresult' = [Opts |-> opts, Result |-> ListLessonsOf(store, ordered, opts)]
    /\ UNCHANGED <<llessons, lsweep>>
    /\ ListOthersIdle

\* a client starts reading the pages of a listing: page 1
SweepFirstPage(store, opts) ==
    /\ ListClientIdle
    /\ opts.Page = 1
    /\ \E ordered \in ListOrders(llessons, opts) :
          /\ ListLessonsOf(store, ordered, opts).Err = "nil"
          /\ lsweep' = [Next       |-> 2,
                        Opts       |-> opts,
                        Concat     |-> ListLessonsOf(store, ordered, opts).Items,
                        TotalPages |-> ListLessonsOf(store, ordered, opts).TotalPages]
    /\ UNCHANGED <<llessons, lresult>>
    /\ ListOthersIdle

\* the client reads the next page, up to page ceil(total_items / page_size)
SweepNextPage(store) ==
    /\ lsweep.Next >= 2
    /\ lsweep.Next <= lsweep.TotalPages
    /\ \E ordered \in ListOrders(llessons, lsweep.Opts) :
          /\ ListLessonsOf(store, ordered, [lsweep.Opts EXCEPT !.Page = lsweep.Next]).Err = "nil"
          /\ lsweep' = [lsweep EXCEPT
                          !.Next = lsweep.Next + 1,
                          !.Concat = lsweep.Concat \o
                              ListLessonsOf(store, ordered,
                                            [lsweep.Opts EXCEPT !.Page = lsweep.Next]).Items]
    /\ UNCHANGED <<llessons, lresult>>
    /\ ListOthersIdle

ListCallOptions ==
    [Page : 1..MaxInt, PageSize : 1..MaxInt, Sort : ListSorts, Filter : ListFilters]

InitList ==
    /\ llessons \in SUBSET ListLessonPool
    /\ lresult = [Opts |-> NoListOptions, Result |-> NoListResult]
    /\ lsweep = NoSweep
    /\ RetryIdleInit
    /\ LaterIdleInit
    /\ CacheIdleInit
    /\ DinDIdleInit
    /\ CBIdleInit
    /\ StoreNotRunning

NextList ==
    \/ \E store \in ListStores, opts \in ListCallOptions : ListLessons(store, opts)
    \/ \E store \in ListStores, opts \in ListCallOptions : SweepFirstPage(store, opts)
    \/ \E store \in ListStores : SweepNextPage(store)

SpecList == InitList /\ [][NextList]_vars

\* calls whose page or page size is below 1
UnsetPagingOptions ==
    {opts \in [Page : (-1)..1, PageSize : (-1)..1, Sort : ListSorts, Filter : ListFilters] :
        opts.Page < 1 \/ opts.PageSize < 1}

NextPaging ==
    \E store \in ListStores, opts \in UnsetPagingOptions : ListLessons(store, opts)

SpecPaging == InitList /\ [][NextPaging]_vars

(***************************************************************************)
(* MongoLessonStore.withRetry: s.cb.Execute around the retry loop.         *)
(*                                                                         *)
(* rpc:  "idle"     no call is running                                      *)
(*       "attempt"  AllowRequest admitted the call, the loop is running     *)
(*       "record"   the loop returned, RecordResult is next                 *)
(* AllowRequest and RecordResult are one step each here; their statements   *)
(* are the subject of the circuit breaker's own specification.              *)
(***************************************************************************)
\* what an attempt f() returns
AttemptErrors == {"nil", "NetworkError", "ErrNoDocuments", "WriteError"}

\* isRetryableError: context.DeadlineExceeded, network errors, and the listed
\* driver errors, mongo.ErrNoDocuments among them
isRetryableError(err) == err \in {"DeadlineExceeded", "NetworkError", "ErrClientDisconnected",
                                  "ErrNoDocuments", "ErrNilDocument", "ErrNilValue",
                                  "ErrEmptySlice"}

RetryOthersIdle == UNCHANGED <<storeVars, dindVars, cacheVars, listVars, laterVars>>

\* withRetry calls s.cb.Execute: AllowRequest
WithRetryExecute(c) ==
    /\ rpc[c] = "idle"
    /\ IF state = "Open" /\ ~TimeoutElapsed(sinceLastStateChange)
       THEN \* ErrCircuitOpen, wrapped, is returned
            /\ rerr' = [rerr EXCEPT ![c] = "ErrCircuitOpen"]
            /\ UNCHANGED <<rpc, state, failureCount, successCount, sinceLastStateChange>>
       ELSE /\ rpc' = [rpc EXCEPT ![c] = "attempt"]
            /\ rerr' = [rerr EXCEPT ![c] = "none"]
            /\ IF state = "Open"
               THEN SetStateLocked("HalfOpen", failureCount, successCount)
               ELSE UNCHANGED <<state, failureCount, successCount, sinceLastStateChange>>
    /\ rattempt' = [rattempt EXCEPT ![c] = 0]
    /\ rinvoked' = [rinvoked EXCEPT ![c] = 0]
    /\ rrecorded' = [rrecorded EXCEPT ![c] = 0]
    /\ UNCHANGED <<cpc, cresult>>
    /\ History("none", c)
    /\ NotifyIfChanged
    /\ RetryOthersIdle

\* a mutant: every attempt is recorded in the breaker
AttemptAccountingRecorded(err) ==
    IF err # "nil"
    THEN SetStateLocked(StateAfterFailure(state, failureCount + 1), failureCount + 1, 0)
    ELSE SetStateLocked(StateAfterSuccess(state, successCount + 1), 0, successCount + 1)

\* what an attempt does to the breaker: f runs inside the function Execute was
\* given, it records nothing
AttemptAccounting(err) ==
    UNCHANGED <<state, failureCount, successCount, sinceLastStateChange>>

\* a mutant: one attempt too many
LoopContinuesOnceMore(attempt) == attempt <= maxRetries + 1

\* attempt++; attempt <= s.maxRetries
LoopContinues(attempt) == attempt <= maxRetries

\* one iteration of the loop: err = f(); return on success or on an error that
\* is not retryable, else attempt++ and leave the loop after maxRetries
RetryAttempt(c, err) ==
    /\ rpc[c] = "attempt"
    /\ failureCount < MaxCount
    /\ successCount < MaxCount
    /\ rinvoked' = [rinvoked EXCEPT ![c] = rinvoked[c] + 1]
    /\ rerr' = [rerr EXCEPT ![c] = err]
    /\ IF err = "nil" \/ ~isRetryableError(err)
       THEN /\ rpc' = [rpc EXCEPT ![c] = "record"]
            /\ UNCHANGED rattempt
       ELSE /\ rattempt' = [rattempt EXCEPT ![c] = rattempt[c] + 1]
            /\ rpc' = [rpc EXCEPT ![c] = IF LoopContinues(rattempt[c] + 1)
                                          THEN "attempt" ELSE "record"]
    /\ AttemptAccounting(err)
    /\ UNCHANGED <<rrecorded, cpc, cresult>>
    /\ History("none", c)
    /\ NotifyIfChanged
    /\ RetryOthersIdle

\* Execute: cb.RecordResult(err) for what the loop returned; withRetry returns err
RetryRecordResult(c) ==
    /\ rpc[c] = "record"
    /\ failureCount < MaxCount
    /\ successCount < MaxCount
    /\ IF rerr[c] # "nil"
       THEN SetStateLocked(StateAfterFailure(state, failureCount + 1), failureCount + 1, 0)
       ELSE SetStateLocked(StateAfterSuccess(state, successCount + 1), 0, successCount + 1)
    /\ rrecorded' = [rrecorded EXCEPT ![c] = rrecorded[c] + 1]
    /\ rpc' = [rpc EXCEPT ![c] = "idle"]
    /\ rattempt' = [rattempt EXCEPT ![c] = 0]
    /\ UNCHANGED <<rerr, rinvoked, cpc, cresult>>
    /\ History(IF rerr[c] # "nil" THEN "failure" ELSE "success", c)
    /\ NotifyIfChanged
    /\ RetryOthersIdle

InitRetry ==
    /\ RetryIdleInit
    /\ LaterIdleInit
    /\ ListIdleInit
    /\ CacheIdleInit
    /\ DinDIdleInit
    /\ CBIdleInit
    /\ StoreNotRunning

NextRetry ==
    \/ \E c \in RetryCallers : WithRetryExecute(c)
    \/ \E c \in RetryCallers, err \in AttemptErrors : RetryAttempt(c, err)
    \/ \E c \in RetryCallers : RetryRecordResult(c)
    \/ CBTick

SpecRetry == InitRetry /\ [][NextRetry]_vars

(***************************************************************************)
(* Lesson command validation and the exec path to the container.           *)
(*                                                                         *)
(* A command is a sequence of pieces of text; its string is their           *)
(* concatenation.  "sp" is a blank, "ls" a harmless word, "wget" one of the  *)
(* dangerousCommands, "eval" one of the dangerousPatterns.                  *)
(***************************************************************************)
CmdPieces == {"sp", "ls", "wget", "eval"}

RECURSIVE SeqsUpTo(_, _)
SeqsUpTo(S, n) ==
    IF n = 0 THEN {<<>>}
    ELSE LET shorter == SeqsUpTo(S, n - 1)
         IN  shorter \cup {Append(q, x) : q \in shorter, x \in S}

Commands == SeqsUpTo(CmdPieces, MaxCmdLen)

dangerousCommands == {<<"wget">>}

dangerousPatterns == {<<"eval">>}

\* strings.HasPrefix
HasPrefix(cmd, p) == Len(cmd) >= Len(p) /\ SubSeq(cmd, 1, Len(p)) = p

\* strings.Contains
Contains(cmd, p) ==
    \E i \in 1..(Len(cmd) + 1) : i + Len(p) - 1 <= Len(cmd) /\ SubSeq(cmd, i, i + Len(p) - 1) = p

RECURSIVE TrimLeft(_)
TrimLeft(cmd) ==
    IF cmd # <<>> /\ Head(cmd) = "sp" THEN TrimLeft(Tail(cmd)) ELSE cmd

RECURSIVE TrimRight(_)
TrimRight(cmd) ==
    IF cmd # <<>> /\ cmd[Len(cmd)] = "sp" THEN TrimRight(SubSeq(cmd, 1, Len(cmd) - 1)) ELSE cmd

\* strings.TrimSpace
TrimSpace(cmd) == TrimRight(TrimLeft(cmd))

\* isValidCommand: trimmed, not empty, no dangerous prefix, no dangerous pattern
isValidCommand(cmd) ==
    LET trimmed == TrimSpace(cmd)
    IN  /\ trimmed # <<>>
        /\ \A p \in dangerousCommands : ~HasPrefix(trimmed, p)
        /\ \A p \in dangerousPatterns : ~Contains(trimmed, p)

\* validateLesson, for a lesson whose title, description and step are in order
validateLesson(cmd) == isValidCommand(cmd)

CmdOthersIdle == UNCHANGED <<storeVars, cbVars, dindVars, cacheVars, listVars, retryVars, confVars, nodeVars, statsVars, moreVars>>

\* POST /api/lessons
createLesson(cmd) ==
    /\ IF ~validateLesson(cmd)
       THEN vstatus' = 400 /\ UNCHANGED vlesson
       ELSE IF vlesson # NoCommand
            THEN vstatus' = 500 /\ UNCHANGED vlesson
            ELSE vstatus' = 201 /\ vlesson' = cmd
    /\ UNCHANGED vexec
    /\ CmdOthersIdle

\* PUT /api/lessons/{id}
updateLesson(cmd) ==
    /\ IF ~validateLesson(cmd)
       THEN vstatus' = 400 /\ UNCHANGED vlesson
       ELSE IF vlesson = NoCommand
            THEN vstatus' = 500 /\ UNCHANGED vlesson
            ELSE vstatus' = 200 /\ vlesson' = cmd
    /\ UNCHANGED vexec
    /\ CmdOthersIdle

\* DELETE /api/lessons/{id}
deleteLesson ==
    /\ IF vlesson = NoCommand
       THEN vstatus' = 404 /\ UNCHANGED vlesson
       ELSE vstatus' = 204 /\ vlesson' = NoCommand
    /\ UNCHANGED vexec
    /\ CmdOthersIdle

\* the commands a client's exec request can carry
ExecRequestCommands == Commands \ {<<>>}

\* DinD.InstanceExec: the command goes to dockerClient.Exec as it came
InstanceExec(cmd) ==
    /\ vexec' = cmd
    /\ UNCHANGED <<vlesson, vstatus>>
    /\ CmdOthersIdle

InitCmd ==
    /\ CmdIdleInit
    /\ ConfIdleInit
    /\ NodeIdleInit
    /\ StatsIdleInit
    /\ ListIdleInit
    /\ RetryIdleInit
    /\ CacheIdleInit
    /\ DinDIdleInit
    /\ CBIdleInit
    /\ StoreNotRunning
    /\ MoreIdleInit

NextCmd ==
    \/ \E cmd \in Commands : createLesson(cmd)
    \/ \E cmd \in Commands : updateLesson(cmd)
    \/ deleteLesson
    \/ \E cmd \in ExecRequestCommands : InstanceExec(cmd)

SpecCmd == InitCmd /\ [][NextCmd]_vars

(***************************************************************************)
(* DinD.InstanceNew: the image and the resource limits of the new          *)
(* instance, from conf, the lesson context and the playground.             *)
(*                                                                         *)
(* Every source has a value of its own, so that the result tells where it  *)
(* came from.                                                              *)
(***************************************************************************)
\* the limits a source can carry: none, all three, or one of them
LimitsOf(n, size) ==
    {NoLimits,
     [MaxProcesses |-> n, MaxMemoryMB |-> n, StorageSize |-> size],
     [MaxProcesses |-> n, MaxMemoryMB |-> 0, StorageSize |-> ""],
     [MaxProcesses |-> 0, MaxMemoryMB |-> n, StorageSize |-> ""],
     [MaxProcesses |-> 0, MaxMemoryMB |-> 0, StorageSize |-> size]}

InstanceConfs == [ImageName : {"", "conf-img"}, Limits : LimitsOf(1, "conf-size")]

ContainerConfigs == [Image : {"", "primary-img"}, Limits : LimitsOf(2, "primary-size")]

LessonSteps == [Image : {"", "step-img"}, Limits : LimitsOf(3, "step-size")]

Lessons == [DefaultImage : {"", "lesson-img"}, Limits : LimitsOf(4, "lesson-size")]

\* Kind "nostep": the lesson was found, StepIndex is outside its steps;
\* Kind "step": StepIndex is a step of the lesson, HasContainers: the step has
\* containers, Primary being the one with role "primary", else the first
LessonContexts ==
    {NoLessonCtx}
    \cup [Kind : {"nostep"}, HasContainers : {FALSE}, Primary : {NoLessonCtx.Primary},
          Step : {NoLessonCtx.Step}, Lesson : Lessons]
    \cup [Kind : {"step"}, HasContainers : {FALSE}, Primary : {NoLessonCtx.Primary},
          Step : LessonSteps, Lesson : Lessons]
    \cup [Kind : {"step"}, HasContainers : {TRUE}, Primary : ContainerConfigs,
          Step : LessonSteps, Lesson : Lessons]

DefaultDinDInstanceImage == "playground-img"

\* a limit of the primary container replaces conf's when the container has it
ContainerLimit(own, container, unset) == IF container # unset THEN container ELSE own

\* a limit of the step or of the lesson fills a limit that is still not set
FallbackLimit(own, fallback, unset) ==
    IF own = unset /\ fallback # unset THEN fallback ELSE own

\* conf.ImageName = primaryContainer.Image and the container's limits
PrimaryContainerApplied(conf, primary) ==
    [ImageName |-> primary.Image,
     Limits |-> [MaxProcesses |-> ContainerLimit(conf.Limits.MaxProcesses, primary.Limits.MaxProcesses, 0),
                 MaxMemoryMB  |-> ContainerLimit(conf.Limits.MaxMemoryMB, primary.Limits.MaxMemoryMB, 0),
                 StorageSize  |-> ContainerLimit(conf.Limits.StorageSize, primary.Limits.StorageSize, "")]]

FallbackLimitsApplied(conf, limits) ==
    [ImageName |-> conf.ImageName,
     Limits |-> [MaxProcesses |-> FallbackLimit(conf.Limits.MaxProcesses, limits.MaxProcesses, 0),
                 MaxMemoryMB  |-> FallbackLimit(conf.Limits.MaxMemoryMB, limits.MaxMemoryMB, 0),
                 StorageSize  |-> FallbackLimit(conf.Limits.StorageSize, limits.StorageSize, "")]]

\* the branch for a step of the lesson: containers, else the step's image, else
\* the lesson's default image; then the step's limits
StepApplied(conf, ctx) ==
    LET imaged == IF ctx.HasContainers THEN PrimaryContainerApplied(conf, ctx.Primary)
                  ELSE IF ctx.Step.Image # ""
                       THEN [conf EXCEPT !.ImageName = ctx.Step.Image]
                       ELSE IF ctx.Lesson.DefaultImage # ""
                            THEN [conf EXCEPT !.ImageName = ctx.Lesson.DefaultImage]
                            ELSE conf
    IN  FallbackLimitsApplied(imaged, ctx.Step.Limits)

\* the lesson context block of InstanceNew
LessonCtxApplied(conf, ctx) ==
    IF ctx.Kind = "none" THEN conf
    ELSE LET stepped == IF ctx.Kind = "step" THEN StepApplied(conf, ctx)
                        ELSE IF ctx.Lesson.DefaultImage # ""
                             THEN [conf EXCEPT !.ImageName = ctx.Lesson.DefaultImage]
                             ELSE conf
         IN  FallbackLimitsApplied(stepped, ctx.Lesson.Limits)

\* conf as it is when the hostname is looked at: the playground's image if none yet
InstanceNewConf(conf, ctx) ==
    LET applied == LessonCtxApplied(conf, ctx)
    IN  IF applied.ImageName = ""
        THEN [applied EXCEPT !.ImageName = DefaultDinDInstanceImage]
        ELSE applied

ConfOthersIdle == UNCHANGED <<storeVars, cbVars, dindVars, cacheVars, listVars, retryVars, cmdVars, nodeVars, statsVars, moreVars>>

\* InstanceNew up to the choice of image and limits
InstanceNewResolve ==
    /\ iout = NoConf
    /\ iout' = InstanceNewConf(iconf, ictx)
    /\ UNCHANGED <<iconf, ictx>>
    /\ ConfOthersIdle

InitConf ==
    /\ iconf \in InstanceConfs
    /\ ictx \in LessonContexts
    /\ iout = NoConf
    /\ CmdIdleInit
    /\ NodeIdleInit
    /\ StatsIdleInit
    /\ ListIdleInit
    /\ RetryIdleInit
    /\ CacheIdleInit
    /\ DinDIdleInit
    /\ CBIdleInit
    /\ StoreNotRunning
    /\ MoreIdleInit

NextConf == InstanceNewResolve

SpecConf == InitConf /\ [][NextConf]_vars

(***************************************************************************)
(* DinD.InstanceNew: the hostname of the new instance, from conf.Hostname  *)
(* and the instances that storage returns for the session.                 *)
(***************************************************************************)
\* the hostnames a session's instances can hold
HostnamePool == {NodeName(n) : n \in 1..MaxNode} \cup {<<"db", 0>>}

\* conf.Hostname when the hostname is looked at
NodeConfHostnames == ConfHostnames \cup {<<"db", 0>>}

NodeOthersIdle == UNCHANGED <<storeVars, cbVars, dindVars, cacheVars, listVars, retryVars, cmdVars, confVars, statsVars, moreVars>>

\* if conf.Hostname == "" { ... conf.Hostname = nodeName }
InstanceNewHostname(hostname) ==
    /\ hconf' = hostname
    /\ hlast' = IF hostname = NoHostname THEN LowestFreeNode(hnames) ELSE hostname
    /\ UNCHANGED hnames
    /\ NodeOthersIdle

InitNode ==
    /\ hnames \in SUBSET HostnamePool
    /\ hconf = NoHostname
    /\ hlast = NoHostname
    /\ CmdIdleInit
    /\ ConfIdleInit
    /\ StatsIdleInit
    /\ ListIdleInit
    /\ RetryIdleInit
    /\ CacheIdleInit
    /\ DinDIdleInit
    /\ CBIdleInit
    /\ StoreNotRunning
    /\ MoreIdleInit

NextNode == \E hostname \in NodeConfHostnames : InstanceNewHostname(hostname)

SpecNode == InitNode /\ [][NextNode]_vars

(***************************************************************************)
(* collectStats.Run, one run per instance at a time.                       *)
(*                                                                         *)
(* spc of a windows instance: "request" (http.NewRequest), "do"             *)
(* (t.cli.Do through the breaker transport), "status", "decode";            *)
(* of any other instance: "session" (cache, then storage.SessionGet),       *)
(* "client" (factory.GetForSession), "stats" (ContainerStats),              *)
(* "decode_stats".  "idle": no run; sret holds what the last one returned.  *)
(***************************************************************************)
StatsTypes == {"windows", "dind"}

NotAvailable == "N/A (stats collection failed)"

\* the failures of each step of Run
StatsFailuresAt(pc) ==
    CASE pc = "request"      -> {"request"}
      [] pc = "do"           -> {"transport", "breaker_open"}
      [] pc = "status"       -> {"status"}
      [] pc = "decode"       -> {"decode"}
      [] pc = "session"      -> {"session"}
      [] pc = "client"       -> {"docker_client", "breaker_open"}
      [] pc = "stats"        -> {"container_stats"}
      [] pc = "decode_stats" -> {"decode"}
      [] OTHER               -> {}

\* the step after pc, "emit" after the last one
StatsNextStep(pc) ==
    CASE pc = "request"      -> "do"
      [] pc = "do"           -> "status"
      [] pc = "status"       -> "decode"
      [] pc = "session"      -> "client"
      [] pc = "client"       -> "stats"
      [] pc = "stats"        -> "decode_stats"
      [] OTHER               -> "emit"

StatsOthersIdle == UNCHANGED <<storeVars, cbVars, dindVars, cacheVars, listVars, retryVars, cmdVars, confVars, nodeVars, moreVars>>

\* t.event.Emit(CollectStatsEvent, instance.SessionId, stats)
StatsEmit(i, mem, cpu) ==
    /\ semitted' = [semitted EXCEPT ![i] = semitted[i] + 1]
    /\ srow' = [srow EXCEPT ![i] = [Session |-> StatsSessionOf(i), Instance |-> i,
                                    Mem |-> mem, Cpu |-> cpu]]

\* a mutant: the failure is returned, nothing is emitted
StatsFailedSilently(i, why) ==
    /\ UNCHANGED <<semitted, srow>>
    /\ sret' = [sret EXCEPT ![i] = why]
    /\ spc' = [spc EXCEPT ![i] = "idle"]

\* a step failed: a row of placeholders is emitted and the error returned
StatsFailed(i, why) ==
    /\ StatsEmit(i, NotAvailable, NotAvailable)
    /\ sret' = [sret EXCEPT ![i] = why]
    /\ spc' = [spc EXCEPT ![i] = "idle"]

\* Run is entered for the instance
StatsRun(i) ==
    /\ spc[i] = "idle"
    /\ spc' = [spc EXCEPT ![i] = IF stype[i] = "windows" THEN "request" ELSE "session"]
    /\ sret' = [sret EXCEPT ![i] = "none"]
    /\ semitted' = [semitted EXCEPT ![i] = 0]
    /\ srow' = [srow EXCEPT ![i] = NoRow]
    /\ UNCHANGED <<stype, scache>>
    /\ StatsOthersIdle

\* a step of Run fails
StatsStepFails(i, why) ==
    /\ why \in StatsFailuresAt(spc[i])
    /\ ~(spc[i] = "session" /\ StatsSessionOf(i) \in scache)
    /\ StatsFailed(i, why)
    /\ UNCHANGED <<stype, scache>>
    /\ StatsOthersIdle

\* a step of Run succeeds; after the last one the sampled row is emitted
StatsStepSucceeds(i) ==
    /\ spc[i] # "idle"
    /\ scache' = IF spc[i] = "session" THEN scache \cup {StatsSessionOf(i)} ELSE scache
    /\ IF StatsNextStep(spc[i]) = "emit"
       THEN /\ StatsEmit(i, "mem", "cpu")
            /\ sret' = [sret EXCEPT ![i] = "nil"]
            /\ spc' = [spc EXCEPT ![i] = "idle"]
       ELSE /\ spc' = [spc EXCEPT ![i] = StatsNextStep(spc[i])]
            /\ UNCHANGED <<sret, semitted, srow>>
    /\ UNCHANGED stype
    /\ StatsOthersIdle

StatsFailures == {"request", "transport", "breaker_open", "status", "decode", "session",
                  "docker_client", "container_stats"}

InitStats ==
    /\ stype \in [StatsInstances -> StatsTypes]
    /\ StatsIdle
    /\ CmdIdleInit
    /\ ConfIdleInit
    /\ NodeIdleInit
    /\ ListIdleInit
    /\ RetryIdleInit
    /\ CacheIdleInit
    /\ DinDIdleInit
    /\ CBIdleInit
    /\ StoreNotRunning
    /\ MoreIdleInit

NextStats ==
    \/ \E i \in StatsInstances : StatsRun(i)
    \/ \E i \in StatsInstances, why \in StatsFailures : StatsStepFails(i, why)
    \/ \E i \in StatsInstances : StatsStepSucceeds(i)

SpecStats == InitStats /\ [][NextStats]_vars

(***************************************************************************)
(* SearchLessons of both stores: the category and tag criteria.  The text  *)
(* query, difficulty, time range, sort and paging are left at their zero   *)
(* values, where neither store applies them.                               *)
(***************************************************************************)
SearchCategories == {"c1", "c2"}

SearchTags == {"t1", "t2"}

SearchLessonPool == [Category : SearchCategories, Tags : SUBSET SearchTags]

SearchOptionsPool == [Categories : SUBSET SearchCategories, Tags : SUBSET SearchTags,
                      RequiredTags : SUBSET SearchTags]

\* MemoryLessonStore.SearchLessons: matches, after the three checks
MemorySearchMatches(l, opts) ==
    /\ opts.Categories # {} => l.Category \in opts.Categories
    /\ opts.Tags # {} => l.Tags \cap opts.Tags # {}
    /\ opts.RequiredTags # {} => opts.RequiredTags \subseteq l.Tags

\* no condition on a field of the filter document
NoCondition == <<"none", {}>>

\* MongoLessonStore.SearchLessons: the filter document, a map; the second
\* assignment to filter["tags"] replaces the first
MongoSearchFilter(opts) ==
    LET withCategory == [category |-> IF opts.Categories # {} THEN <<"$in", opts.Categories>>
                                      ELSE NoCondition,
                         tags |-> NoCondition]
        withTags == IF opts.Tags # {}
                    THEN [withCategory EXCEPT !.tags = <<"$in", opts.Tags>>]
                    ELSE withCategory
    IN  IF opts.RequiredTags # {}
        THEN [withTags EXCEPT !.tags = <<"$all", opts.RequiredTags>>]
        ELSE withTags

\* a condition of the filter document on a set of values of the lesson
MongoConditionHolds(values, condition) ==
    CASE condition[1] = "$in"  -> values \cap condition[2] # {}
      [] condition[1] = "$all" -> condition[2] \subseteq values
      [] OTHER                 -> TRUE

\* the server's evaluation of the filter document on a lesson
MongoSearchMatches(l, opts) ==
    /\ MongoConditionHolds({l.Category}, MongoSearchFilter(opts).category)
    /\ MongoConditionHolds(l.Tags, MongoSearchFilter(opts).tags)

SearchOthersIdle == UNCHANGED <<storeVars, cbVars, dindVars, cacheVars, listVars, retryVars, cmdVars, confVars, nodeVars, statsVars, versionVars, parseVars, checkVars, httpVars, rateVars, periodVars, stepVars, pagesVars>>

\* SearchLessons(opts) on the store that holds qlesson
SearchLessons ==
    /\ qfound = "none"
    /\ qfound' = IF (IF qstore = "memory" THEN MemorySearchMatches(qlesson, qopts)
                     ELSE MongoSearchMatches(qlesson, qopts))
                 THEN "returned" ELSE "omitted"
    /\ UNCHANGED <<qstore, qlesson, qopts>>
    /\ SearchOthersIdle

InitSearch ==
    /\ qstore \in {"memory", "mongo"}
    /\ qlesson \in SearchLessonPool
    /\ qopts \in SearchOptionsPool
    /\ qfound = "none"
    /\ CmdIdleInit
    /\ ConfIdleInit
    /\ NodeIdleInit
    /\ StatsIdleInit
    /\ ListIdleInit
    /\ RetryIdleInit
    /\ CacheIdleInit
    /\ DinDIdleInit
    /\ CBIdleInit
    /\ StoreNotRunning
    /\ VersionIdleInit
    /\ ParseIdleInit
    /\ CheckIdleInit
    /\ HTTPIdleInit
    /\ RateIdleInit
    /\ PeriodIdleInit
    /\ StepIdleInit
    /\ PagesIdleInit

NextSearch == SearchLessons

SpecSearch == InitSearch /\ [][NextSearch]_vars

(***************************************************************************)
(* GetLessonVersion of both stores, on a lesson CreateLesson and            *)
(* UpdateLesson wrote.  The two stores' functions differ only in how the    *)
(* current lesson is fetched.                                              *)
(***************************************************************************)
VersionRequests == (-1)..(MaxVersion + 1)

\* the history entries the versioned lesson keeps, including the requested one
EarlierVersionsInclusive(history, version) ==
    SelectSeq(history, LAMBDA vi : vi.Version <= version)

\* filteredHistory: the history entries the versioned lesson keeps
EarlierVersions(history, version) ==
    SelectSeq(history, LAMBDA vi : vi.Version < version)

\* the result of GetLessonVersion(id, version) when the store holds cur under id
GetLessonVersionResult(cur, version) ==
    LET history == cur.VersionHistory
        found   == {i \in 1..Len(history) : history[i].Version = version}
    IN  IF cur = NoDoc
        THEN [Err |-> "lesson not found", Lesson |-> NoDoc]
        ELSE IF cur.Version = version
        THEN [Err |-> "", Lesson |-> cur]
        ELSE IF version <= 0
        THEN [Err |-> "invalid version number", Lesson |-> NoDoc]
        ELSE IF version > cur.Version
        THEN [Err |-> "version does not exist", Lesson |-> NoDoc]
        ELSE IF found = {}
        THEN [Err |-> "version not found in version history", Lesson |-> NoDoc]
        ELSE LET versionInfo == history[CHOOSE i \in found : \A j \in found : j <= i]
             IN  [Err |-> "",
                  Lesson |-> [cur EXCEPT !.Version = version,
                                         !.UpdatedAt = versionInfo.Timestamp,
                                         !.VersionHistory = EarlierVersions(history, version)]]

VersionOthersIdle == UNCHANGED <<storeVars, cbVars, dindVars, cacheVars, listVars, retryVars, cmdVars, confVars, nodeVars, statsVars, searchVars, parseVars, checkVars, httpVars, rateVars, periodVars, stepVars, pagesVars>>

\* the titles a caller gives a lesson
VersionTitles == {"Test Lesson", "Updated Title"}

\* the lesson a caller hands to CreateLesson or UpdateLesson, with its content
TitledLesson(title) == [Title |-> title] @@ InputLesson("a", 0)

\* CreateLesson(l): the store holds the lesson at version 1
VersionCreateLesson(title) ==
    /\ glesson = NoDoc
    /\ glesson' = CreatedLesson(TitledLesson(title), "a", gnow)
    /\ gstamps' = <<gnow>>
    /\ gtitles' = <<title>>
    /\ greq' = 0
    /\ gres' = NoVersionResult
    /\ UNCHANGED gnow
    /\ VersionOthersIdle

\* UpdateLesson(id, l, summary)
VersionUpdateLesson(summary, title) ==
    /\ glesson # NoDoc
    /\ glesson.Version < MaxVersion
    /\ glesson' = UpdatedLesson(TitledLesson(title), glesson, summary, gnow)
    /\ gstamps' = Append(gstamps, gnow)
    /\ gtitles' = Append(gtitles, title)
    /\ greq' = 0
    /\ gres' = NoVersionResult
    /\ UNCHANGED gnow
    /\ VersionOthersIdle

\* the passage of time between calls
VersionTick ==
    /\ gnow < MaxVersion - 1
    /\ gnow' = gnow + 1
    /\ UNCHANGED <<glesson, greq, gres, gstamps, gtitles>>
    /\ VersionOthersIdle

\* GetLessonVersion(id, version)
GetLessonVersion(version) ==
    /\ greq' = version
    /\ gres' = GetLessonVersionResult(glesson, version)
    /\ UNCHANGED <<glesson, gnow, gstamps, gtitles>>
    /\ VersionOthersIdle

InitVersion ==
    /\ VersionIdleInit
    /\ SearchIdleInit
    /\ CmdIdleInit
    /\ ConfIdleInit
    /\ NodeIdleInit
    /\ StatsIdleInit
    /\ ListIdleInit
    /\ RetryIdleInit
    /\ CacheIdleInit
    /\ DinDIdleInit
    /\ CBIdleInit
    /\ StoreNotRunning
    /\ ParseIdleInit
    /\ CheckIdleInit
    /\ HTTPIdleInit
    /\ RateIdleInit
    /\ PeriodIdleInit
    /\ StepIdleInit
    /\ PagesIdleInit

NextVersion ==
    \/ \E title \in VersionTitles : VersionCreateLesson(title)
    \/ \E summary \in Summaries, title \in VersionTitles : VersionUpdateLesson(summary, title)
    \/ VersionTick
    \/ \E version \in VersionRequests : GetLessonVersion(version)

SpecVersion == InitVersion /\ [][NextVersion]_vars

(***************************************************************************)
(* The markdown parsers: Parser.Parse (goldmark walk) and                  *)
(* SimpleParser.Parse (regular expressions).  One action handles one       *)
(* fenced block, in source order.  Text is a sequence of pieces, "sp"      *)
(* being white space.                                                      *)
(***************************************************************************)
\* the content of an expect or question block
ParseTexts == {<<>>, <<"sp">>, <<"ls">>, <<"sp", "ls">>}

\* the lines of a docker block
DockerContents == {<<>>, <<<<"ls">>>>, <<<<"sp">>, <<"sp", "wget">>>>}

ParseBlocks ==
    [Kind : {"docker"}, Lines : DockerContents, Text : {<<>>}]
        \cup [Kind : {"expect", "question"}, Lines : {<<>>}, Text : ParseTexts]

\* 5 * time.Minute
FiveMinutes == <<5, "minute">>

\* the ID of a LessonStep built without one
NoStepID == <<"", 0>>

\* generateStepID: "step-" + string(rune('a' + index)); the rune 'a' is 97
generateStepID(index) == <<"step-", 97 + index>>

\* parseCommands / parseDockerBlock: the trimmed, non-empty lines
RECURSIVE parseCommands(_)
parseCommands(lines) ==
    IF lines = <<>> THEN <<>>
    ELSE LET cmd == TrimSpace(Head(lines))
         IN  (IF cmd # <<>> THEN <<cmd>> ELSE <<>>) \o parseCommands(Tail(lines))

LessonStep(id, commands) ==
    [ID |-> id, Commands |-> commands, Expected |-> <<>>, Question |-> <<>>,
     Timeout |-> FiveMinutes]

ParseOthersIdle == UNCHANGED <<storeVars, cbVars, dindVars, cacheVars, listVars, retryVars, cmdVars, confVars, nodeVars, statsVars, searchVars, versionVars, checkVars, httpVars, rateVars, periodVars, stepVars, pagesVars>>

\* Parser.Parse: the walk enters one DockerBlock, ExpectBlock or QuestionBlock
ParserBlock(b) ==
    /\ pkind = "Parser"
    /\ pn < MaxBlocks
    /\ LET n == Len(psteps) IN
       psteps' =
          CASE b.Kind = "docker" ->
                  IF n > 0 /\ psteps[n].Expected = <<>> /\ psteps[n].Question = <<>>
                  THEN [psteps EXCEPT ![n].Commands = @ \o parseCommands(b.Lines)]
                  ELSE Append(psteps, LessonStep(NoStepID, parseCommands(b.Lines)))
            [] b.Kind = "expect" ->
                  IF n > 0 THEN [psteps EXCEPT ![n].Expected = TrimSpace(b.Text)]
                  ELSE psteps
            [] b.Kind = "question" ->
                  IF n > 0 THEN [psteps EXCEPT ![n].Question = TrimSpace(b.Text)]
                  ELSE psteps
    /\ plast' = b
    /\ pn' = pn + 1
    /\ UNCHANGED <<pkind, pcur>>
    /\ ParseOthersIdle

\* SimpleParser.Parse: one iteration of the loop over blockMatches
SimpleParserBlock(b) ==
    /\ pkind = "SimpleParser"
    /\ pn < MaxBlocks
    /\ CASE b.Kind = "docker" ->
              IF pcur # 0 /\ psteps[pcur].Expected = <<>> /\ psteps[pcur].Question = <<>>
              THEN /\ psteps' = [psteps EXCEPT ![pcur].Commands = @ \o parseCommands(b.Lines)]
                   /\ UNCHANGED pcur
              ELSE /\ psteps' = Append(psteps, LessonStep(generateStepID(Len(psteps)),
                                                          parseCommands(b.Lines)))
                   /\ pcur' = Len(psteps) + 1
         [] b.Kind = "expect" ->
              IF pcur # 0
              THEN /\ psteps' = [psteps EXCEPT ![pcur].Expected = TrimSpace(b.Text)]
                   /\ pcur' = 0
              ELSE UNCHANGED <<psteps, pcur>>
         [] b.Kind = "question" ->
              IF pcur # 0
              THEN /\ psteps' = [psteps EXCEPT ![pcur].Question = TrimSpace(b.Text)]
                   /\ pcur' = 0
              ELSE UNCHANGED <<psteps, pcur>>
    /\ plast' = b
    /\ pn' = pn + 1
    /\ UNCHANGED pkind
    /\ ParseOthersIdle

InitParse ==
    /\ pkind \in {"Parser", "SimpleParser"}
    /\ psteps = <<>>
    /\ pcur = 0
    /\ plast = NoBlock
    /\ pn = 0
    /\ SearchIdleInit
    /\ VersionIdleInit
    /\ CmdIdleInit
    /\ ConfIdleInit
    /\ NodeIdleInit
    /\ StatsIdleInit
    /\ ListIdleInit
    /\ RetryIdleInit
    /\ CacheIdleInit
    /\ DinDIdleInit
    /\ CBIdleInit
    /\ StoreNotRunning
    /\ CheckIdleInit
    /\ HTTPIdleInit
    /\ RateIdleInit
    /\ PeriodIdleInit
    /\ StepIdleInit
    /\ PagesIdleInit

NextParse ==
    \/ \E b \in ParseBlocks : ParserBlock(b)
    \/ \E b \in ParseBlocks : SimpleParserBlock(b)

SpecParse == InitParse /\ [][NextParse]_vars

(***************************************************************************)
(* LessonHandler.completeStep and LessonHandler.validateStep, as the       *)
(* router of RegisterRoutes calls them, on a stored lesson with one step   *)
(* and CurrentStep 0.  Text is a sequence of pieces, "sp" being white      *)
(* space.                                                                  *)
(***************************************************************************)
OutputTexts == SeqsUpTo({"sp", "ls"}, 2)

\* what a client may put in the {step} segment
StepSegments == {"0", "1", "x"}

\* mux.Vars(r)["step"]: "/api/lessons/{id}/steps/{step}/complete" has the
\* variable, "/api/lessons/{id}/validate" has not, and a missing key reads ""
StepVar(route, segment) == IF route = "complete" THEN segment ELSE ""

\* strconv.Atoi on the strings above
Atoi(s) ==
    CASE s = "0" -> [Err |-> FALSE, Value |-> 0]
      [] s = "1" -> [Err |-> FALSE, Value |-> 1]
      [] OTHER   -> [Err |-> TRUE, Value |-> 0]

\* lesson.Steps of the stored lesson
StoredSteps == <<"step">>

\* normalizedOutput == normalizedExpected
OutputMatches(output, expected) == TrimSpace(output) = TrimSpace(expected)

CheckOthersIdle == UNCHANGED <<storeVars, cbVars, dindVars, cacheVars, listVars, retryVars, cmdVars, confVars, nodeVars, statsVars, searchVars, versionVars, parseVars, httpVars, rateVars, periodVars, stepVars, pagesVars>>

\* POST /api/lessons/{id}/steps/{step}/complete
completeStep ==
    /\ yroute = "complete"
    /\ yresp = "none"
    /\ LET stepIndex == Atoi(StepVar(yroute, ygiven)) IN
       yresp' =
          IF stepIndex.Err THEN "error"
          ELSE IF stepIndex.Value < 0 \/ stepIndex.Value >= Len(StoredSteps) THEN "error"
          ELSE IF yexpected # <<>> /\ ~OutputMatches(yout, yexpected) THEN "invalid"
          ELSE IF yfail THEN "error"
          ELSE "valid"
    /\ UNCHANGED <<yroute, ygiven, yexpected, yout, yfail>>
    /\ CheckOthersIdle

\* POST /api/lessons/{id}/validate
validateStep ==
    /\ yroute = "validate"
    /\ yresp = "none"
    /\ LET step == Atoi(StepVar(yroute, ygiven)) IN
       yresp' =
          IF step.Err THEN "error"
          ELSE IF step.Value < 0 \/ step.Value >= Len(StoredSteps) THEN "error"
          ELSE IF yexpected = <<>> THEN "valid"
          ELSE IF OutputMatches(yout, yexpected) THEN "valid"
          ELSE "invalid"
    /\ UNCHANGED <<yroute, ygiven, yexpected, yout, yfail>>
    /\ CheckOthersIdle

InitCheck ==
    /\ yroute \in {"complete", "validate"}
    /\ ygiven \in (IF yroute = "complete" THEN StepSegments ELSE {""})
    /\ yexpected \in OutputTexts
    /\ yout \in OutputTexts
    /\ yfail \in (IF yroute = "complete" THEN BOOLEAN ELSE {FALSE})
    /\ yresp = "none"
    /\ SearchIdleInit
    /\ VersionIdleInit
    /\ ParseIdleInit
    /\ CmdIdleInit
    /\ ConfIdleInit
    /\ NodeIdleInit
    /\ StatsIdleInit
    /\ ListIdleInit
    /\ RetryIdleInit
    /\ CacheIdleInit
    /\ DinDIdleInit
    /\ CBIdleInit
    /\ StoreNotRunning
    /\ HTTPIdleInit
    /\ RateIdleInit
    /\ PeriodIdleInit
    /\ StepIdleInit
    /\ PagesIdleInit

NextCheck ==
    \/ completeStep
    \/ validateStep

SpecCheck == InitCheck /\ [][NextCheck]_vars

(***************************************************************************)
(* CircuitBreakerHTTPClient.Do and circuitBreakerTransport.RoundTrip: one  *)
(* goroutine sends requests through Execute of the wrapper's breaker.      *)
(***************************************************************************)
StatusCodes == {200, 404, 499, 500, 503}

\* what the wrapped client or transport answers: an error, or a response
Responses == {[Err |-> TRUE, StatusCode |-> 0]} \cup [Err : {FALSE}, StatusCode : StatusCodes]

\* a check that lets status 500 pass as a success
StatusAbove500(code) == code > 500

\* resp.StatusCode >= 500
StatusIsServerError(code) == code >= 500

\* the error the function handed to Execute returns: TRUE for an error
WrappedCallFails(resp) == resp.Err \/ StatusIsServerError(resp.StatusCode)

\* AllowRequest: the state it leaves and whether the request may pass
HTTPAllowRequest ==
    IF hstate = "Open"
    THEN IF TimeoutElapsed(hsince) THEN [State |-> "HalfOpen", Allowed |-> TRUE]
         ELSE [State |-> "Open", Allowed |-> FALSE]
    ELSE [State |-> hstate, Allowed |-> TRUE]

\* RecordResult(err) on a breaker in state st: state and counters afterwards
HTTPRecordResult(st, failures, successes, failed) ==
    LET fc == IF failed THEN failures + 1 ELSE 0
        sc == IF failed THEN 0 ELSE successes + 1
        newState == IF failed THEN StateAfterFailure(st, fc) ELSE StateAfterSuccess(st, sc)
    IN  IF newState = st
        THEN [State |-> st, Failures |-> fc, Successes |-> sc]
        ELSE [State |-> newState, Failures |-> 0, Successes |-> 0]

HTTPOthersIdle == UNCHANGED <<storeVars, cbVars, dindVars, cacheVars, listVars, retryVars, cmdVars, confVars, nodeVars, statsVars, searchVars, versionVars, parseVars, checkVars, rateVars, periodVars, stepVars, pagesVars>>

\* Do(req) or RoundTrip(req): Execute of the function that sends the request
HTTPDo(resp) ==
    /\ IF WrappedCallFails(resp) THEN hfailures < MaxCount ELSE hsuccesses < MaxCount
    /\ LET allow == HTTPAllowRequest
           \* setState(StateHalfOpen) resets the counters
           fc == IF allow.State # hstate THEN 0 ELSE hfailures
           sc == IF allow.State # hstate THEN 0 ELSE hsuccesses
           after == HTTPRecordResult(allow.State, fc, sc, WrappedCallFails(resp))
       IN  IF ~allow.Allowed
           THEN /\ hret' = "circuit breaker is open"
                /\ hout' = NoResponse
                /\ hrecorded' = "none"
                /\ hbefore' = NoBreaker
                /\ UNCHANGED <<hstate, hfailures, hsuccesses, hsince>>
           ELSE /\ hout' = resp
                /\ hrecorded' = IF WrappedCallFails(resp) THEN "failure" ELSE "success"
                /\ hbefore' = [State |-> allow.State, Failures |-> fc, Successes |-> sc]
                /\ hstate' = after.State
                /\ hsince' = IF allow.State # hstate \/ after.State # allow.State
                             THEN 0 ELSE hsince
                /\ hfailures' = after.Failures
                /\ hsuccesses' = after.Successes
                /\ hret' = IF resp.Err THEN "error"
                           ELSE IF WrappedCallFails(resp) THEN "response and error"
                           ELSE "response"
    /\ UNCHANGED hwrap
    /\ HTTPOthersIdle

\* a tick of the clock
HTTPTick ==
    /\ hsince <= ResetTimeout
    /\ hsince' = hsince + 1
    /\ UNCHANGED <<hwrap, hstate, hfailures, hsuccesses, hout, hrecorded, hbefore, hret>>
    /\ HTTPOthersIdle

InitHTTP ==
    /\ hwrap \in {"client", "transport"}
    /\ hstate = "Closed"
    /\ hfailures = 0
    /\ hsuccesses = 0
    /\ hsince = 0
    /\ hout = NoResponse
    /\ hrecorded = "none"
    /\ hbefore = NoBreaker
    /\ hret = "none"
    /\ SearchIdleInit
    /\ VersionIdleInit
    /\ ParseIdleInit
    /\ CheckIdleInit
    /\ CmdIdleInit
    /\ ConfIdleInit
    /\ NodeIdleInit
    /\ StatsIdleInit
    /\ ListIdleInit
    /\ RetryIdleInit
    /\ CacheIdleInit
    /\ DinDIdleInit
    /\ CBIdleInit
    /\ StoreNotRunning
    /\ RateIdleInit
    /\ PeriodIdleInit
    /\ StepIdleInit
    /\ PagesIdleInit

NextHTTP ==
    \/ \E resp \in Responses : HTTPDo(resp)
    \/ HTTPTick

SpecHTTP == InitHTTP /\ [][NextHTTP]_vars

(***************************************************************************)
(* RateLimitMiddleware: one limiter, built when the middleware is          *)
(* installed, shared by every request.  Time advances in whole seconds.    *)
(***************************************************************************)
\* the tokens a bucket holding tokens has after one more second
TokensAfterSecond(tokens) ==
    IF tokens + Every(Second) > Burst THEN Burst ELSE tokens + Every(Second)

RateOthersIdle == UNCHANGED <<storeVars, cbVars, dindVars, cacheVars, listVars, retryVars, cmdVars, confVars, nodeVars, statsVars, searchVars, versionVars, parseVars, checkVars, httpVars, periodVars, stepVars, pagesVars>>

\* a request arrives: limiter.Allow() takes a token if there is one, the
\* request goes to the next handler; otherwise the answer is 429
RateLimitMiddleware ==
    /\ IF ltokens >= 1
       THEN /\ ltokens' = ltokens - 1
            /\ ladmitted' = ladmitted + 1
            /\ lout' = "next"
            /\ UNCHANGED lrejected
       ELSE /\ lrejected < MaxRejected
            /\ lrejected' = lrejected + 1
            /\ lout' = "TooManyRequests"
            /\ UNCHANGED <<ltokens, ladmitted>>
    /\ RateOthersIdle

\* one second passes
RateTick ==
    /\ ltokens' = TokensAfterSecond(ltokens)
    /\ ladmitted' = 0
    /\ lrejected' = 0
    /\ lout' = "none"
    /\ RateOthersIdle

InitRate ==
    /\ ltokens = Burst
    /\ ladmitted = 0
    /\ lrejected = 0
    /\ lout = "none"
    /\ SearchIdleInit
    /\ VersionIdleInit
    /\ ParseIdleInit
    /\ CheckIdleInit
    /\ HTTPIdleInit
    /\ CmdIdleInit
    /\ ConfIdleInit
    /\ NodeIdleInit
    /\ StatsIdleInit
    /\ ListIdleInit
    /\ RetryIdleInit
    /\ CacheIdleInit
    /\ DinDIdleInit
    /\ CBIdleInit
    /\ StoreNotRunning
    /\ PeriodIdleInit
    /\ StepIdleInit
    /\ PagesIdleInit

NextRate == RateLimitMiddleware \/ RateTick

SpecRate == InitRate /\ [][NextRate]_vars

(***************************************************************************)
(* Execute with AllowRequest and RecordResult each taken as one step:      *)
(* callers are admitted, run their operation for as long as it takes, and  *)
(* record its result in whatever state the breaker has by then.            *)
(***************************************************************************)
PeriodOthersIdle == UNCHANGED <<storeVars, cbVars, dindVars, cacheVars, listVars, retryVars, cmdVars, confVars, nodeVars, statsVars, searchVars, versionVars, parseVars, checkVars, httpVars, rateVars, stepVars, pagesVars>>

\* Execute up to the call of fn: AllowRequest rejects, promotes or admits
PeriodAllowRequest(c) ==
    /\ qpc[c] = "idle"
    /\ IF qstate = "Open" /\ ~TimeoutElapsed(qsince)
       THEN \* return ErrCircuitOpen
            UNCHANGED <<qstate, qfailures, qsuccesses, qsince, qpc, qstale>>
       ELSE /\ IF qstate = "Open"
               THEN \* setState(StateHalfOpen)
                    /\ qstate' = "HalfOpen"
                    /\ qfailures' = 0
                    /\ qsuccesses' = 0
                    /\ qsince' = 0
               ELSE UNCHANGED <<qstate, qfailures, qsuccesses, qsince>>
            /\ qpc' = [qpc EXCEPT ![c] = "fn"]
            /\ qstale' = [qstale EXCEPT ![c] = FALSE]
    /\ PeriodOthersIdle

\* fn returns and Execute calls RecordResult(err)
PeriodRecordResult(c, failed) ==
    /\ qpc[c] = "fn"
    /\ IF failed THEN qfailures < MaxCount ELSE qsuccesses < MaxCount
    /\ LET after == HTTPRecordResult(qstate, qfailures, qsuccesses, failed)
       IN  /\ qstate' = after.State
           /\ qfailures' = after.Failures
           /\ qsuccesses' = after.Successes
           /\ qsince' = IF after.State # qstate THEN 0 ELSE qsince
           /\ qstale' = [d \in Callers |->
                            IF d = c THEN FALSE
                            ELSE IF after.State = "Open" /\ qstate # "Open" /\ qpc[d] = "fn"
                                 THEN TRUE
                            ELSE qstale[d]]
    /\ qpc' = [qpc EXCEPT ![c] = "idle"]
    /\ PeriodOthersIdle

\* a tick of the clock
PeriodTick ==
    /\ qsince <= ResetTimeout
    /\ qsince' = qsince + 1
    /\ UNCHANGED <<qstate, qfailures, qsuccesses, qpc, qstale>>
    /\ PeriodOthersIdle

InitPeriod ==
    /\ qstate = "Closed"
    /\ qfailures = 0
    /\ qsuccesses = 0
    /\ qsince = 0
    /\ qpc = [c \in Callers |-> "idle"]
    /\ qstale = [c \in Callers |-> FALSE]
    /\ SearchIdleInit
    /\ VersionIdleInit
    /\ ParseIdleInit
    /\ CheckIdleInit
    /\ HTTPIdleInit
    /\ RateIdleInit
    /\ CmdIdleInit
    /\ ConfIdleInit
    /\ NodeIdleInit
    /\ StatsIdleInit
    /\ ListIdleInit
    /\ RetryIdleInit
    /\ CacheIdleInit
    /\ DinDIdleInit
    /\ CBIdleInit
    /\ StoreNotRunning
    /\ StepIdleInit
    /\ PagesIdleInit

NextPeriod ==
    \/ \E c \in Callers : PeriodAllowRequest(c)
    \/ \E c \in Callers, failed \in BOOLEAN : PeriodRecordResult(c, failed)
    \/ PeriodTick

SpecPeriod == InitPeriod /\ [][NextPeriod]_vars

(***************************************************************************)
(* LessonHandler.startLesson and completeStep on one lesson of NumSteps    *)
(* steps, each request in a goroutine of its own.                          *)
(*                                                                         *)
(* upc:  "idle"     no request is running                                   *)
(*       "compare"  the lesson was fetched and the output accepted          *)
(*       "load"     stepIndex == lesson.CurrentStep held                    *)
(*       "store"    lesson.CurrentStep was read for the increment           *)
(*       "update"   the increment is written, h.store.UpdateLesson is next  *)
(***************************************************************************)
\* the step indexes a request may carry
StepIndexes == (-1)..NumSteps

\* lesson.CurrentStep as request r reads it: the field of the stored lesson when
\* GetLesson handed out the stored pointer, the field of its copy otherwise
CurrentStepOf(r) == IF ubackend = "memory" THEN ucurrent ELSE ulocal[r]

StepOthersIdle == UNCHANGED <<storeVars, cbVars, dindVars, cacheVars, listVars, retryVars, cmdVars, confVars, nodeVars, statsVars, searchVars, versionVars, parseVars, checkVars, httpVars, rateVars, periodVars, pagesVars>>

\* startLesson: lesson.CurrentStep = 0 and UpdateLesson
startLesson(r) ==
    /\ upc[r] = "idle"
    /\ ucurrent' = 0
    /\ UNCHANGED <<ubackend, upc, ustep, ulocal>>
    /\ StepOthersIdle

\* completeStep up to the comparison: GetLesson, the range check of stepIndex
\* and the check of the output against the step's expectation
completeStepGet(r, stepIndex, matched) ==
    /\ upc[r] = "idle"
    /\ IF stepIndex < 0 \/ stepIndex >= NumSteps \/ ~matched
       THEN \* 400
            UNCHANGED <<upc, ustep, ulocal>>
       ELSE /\ upc' = [upc EXCEPT ![r] = "compare"]
            /\ ustep' = [ustep EXCEPT ![r] = stepIndex]
            /\ ulocal' = [ulocal EXCEPT ![r] = IF ubackend = "memory" THEN 0 ELSE ucurrent]
    /\ UNCHANGED <<ubackend, ucurrent>>
    /\ StepOthersIdle

\* if stepIndex == lesson.CurrentStep
completeStepCompare(r) ==
    /\ upc[r] = "compare"
    /\ upc' = [upc EXCEPT ![r] = IF ustep[r] = CurrentStepOf(r) THEN "load" ELSE "idle"]
    /\ UNCHANGED <<ubackend, ucurrent, ustep, ulocal>>
    /\ StepOthersIdle

\* lesson.CurrentStep++, its read
completeStepLoad(r) ==
    /\ upc[r] = "load"
    /\ ulocal' = [ulocal EXCEPT ![r] = CurrentStepOf(r)]
    /\ upc' = [upc EXCEPT ![r] = "store"]
    /\ UNCHANGED <<ubackend, ucurrent, ustep>>
    /\ StepOthersIdle

\* lesson.CurrentStep++, its write
completeStepStore(r) ==
    /\ upc[r] = "store"
    /\ ulocal[r] < MaxCurrentStep
    /\ IF ubackend = "memory"
       THEN /\ ucurrent' = ulocal[r] + 1
            /\ UNCHANGED ulocal
       ELSE /\ ulocal' = [ulocal EXCEPT ![r] = ulocal[r] + 1]
            /\ UNCHANGED ucurrent
    /\ upc' = [upc EXCEPT ![r] = "update"]
    /\ UNCHANGED <<ubackend, ustep>>
    /\ StepOthersIdle

\* h.store.UpdateLesson(id, lesson) and the response
completeStepUpdate(r) ==
    /\ upc[r] = "update"
    /\ ucurrent' = IF ubackend = "memory" THEN ucurrent ELSE ulocal[r]
    /\ upc' = [upc EXCEPT ![r] = "idle"]
    /\ UNCHANGED <<ubackend, ustep, ulocal>>
    /\ StepOthersIdle

InitStep ==
    /\ ubackend \in {"memory", "mongo"}
    /\ ucurrent = 0
    /\ upc = [r \in Goroutines |-> "idle"]
    /\ ustep = [r \in Goroutines |-> 0]
    /\ ulocal = [r \in Goroutines |-> 0]
    /\ SearchIdleInit
    /\ VersionIdleInit
    /\ ParseIdleInit
    /\ CheckIdleInit
    /\ HTTPIdleInit
    /\ RateIdleInit
    /\ PeriodIdleInit
    /\ CmdIdleInit
    /\ ConfIdleInit
    /\ NodeIdleInit
    /\ StatsIdleInit
    /\ ListIdleInit
    /\ RetryIdleInit
    /\ CacheIdleInit
    /\ DinDIdleInit
    /\ CBIdleInit
    /\ StoreNotRunning
    /\ PagesIdleInit

NextStep ==
    \/ \E r \in Goroutines : startLesson(r)
    \/ \E r \in Goroutines, stepIndex \in StepIndexes, matched \in BOOLEAN :
          completeStepGet(r, stepIndex, matched)
    \/ \E r \in Goroutines : completeStepCompare(r)
    \/ \E r \in Goroutines : completeStepLoad(r)
    \/ \E r \in Goroutines : completeStepStore(r)
    \/ \E r \in Goroutines : completeStepUpdate(r)

SpecStep == InitStep /\ [][NextStep]_vars

(***************************************************************************)
(* CachedLessonStore.ListLessons over a backing store that is not mutated. *)
(***************************************************************************)
\* the options of the listings made through the cached store
CachedListOptions == [Page : {1}, PageSize : 1..2, Sort : ListSorts, Filter : ListFilters]

ListCacheKeys == {generateListCacheKey(opts) : opts \in CachedListOptions}

\* the results s.store.ListLessons(opts) may return
StoreListResults(ls, opts) ==
    {MemoryListLessons(ordered, opts) : ordered \in ListOrders(ls, opts)}

PagesOthersIdle == UNCHANGED <<storeVars, cbVars, dindVars, cacheVars, listVars, retryVars, cmdVars, confVars, nodeVars, statsVars, searchVars, versionVars, parseVars, checkVars, httpVars, rateVars, periodVars, stepVars>>

\* ListLessons(opts): the entry under generateListCacheKey(opts) if there is
\* one, else the backing store's result, which is put under that key
CachedListLessons(opts) ==
    /\ IF vcache[generateListCacheKey(opts)] # NoListResult
       THEN /\ vlast' = [Opts |-> opts, Result |-> vcache[generateListCacheKey(opts)]]
            /\ UNCHANGED vcache
       ELSE \E result \in StoreListResults(vlessons, opts) :
               /\ vlast' = [Opts |-> opts, Result |-> result]
               /\ vcache' = [vcache EXCEPT ![generateListCacheKey(opts)] = result]
    /\ UNCHANGED vlessons
    /\ PagesOthersIdle

\* the entry under k outlives its ttl
ListEntryExpires(k) ==
    /\ vcache[k] # NoListResult
    /\ vcache' = [vcache EXCEPT ![k] = NoListResult]
    /\ UNCHANGED <<vlessons, vlast>>
    /\ PagesOthersIdle

InitPages ==
    /\ vlessons \in SUBSET ListLessonPool
    /\ vcache = [k \in ListCacheKeys |-> NoListResult]
    /\ vlast = [Opts |-> NoListOptions, Result |-> NoListResult]
    /\ SearchIdleInit
    /\ VersionIdleInit
    /\ ParseIdleInit
    /\ CheckIdleInit
    /\ HTTPIdleInit
    /\ RateIdleInit
    /\ PeriodIdleInit
    /\ StepIdleInit
    /\ CmdIdleInit
    /\ ConfIdleInit
    /\ NodeIdleInit
    /\ StatsIdleInit
    /\ ListIdleInit
    /\ RetryIdleInit
    /\ CacheIdleInit
    /\ DinDIdleInit
    /\ CBIdleInit
    /\ StoreNotRunning

NextPages ==
    \/ \E opts \in CachedListOptions : CachedListLessons(opts)
    \/ \E k \in ListCacheKeys : ListEntryExpires(k)

SpecPages == InitPages /\ [][NextPages]_vars

(***************************************************************************)
(* Claims about the lesson stores.                                         *)
(***************************************************************************)
\* the lesson a store holds under an id
StoredLesson(id) == IF backend = "memory" THEN heap[lessons[id]] ELSE collection[id]
StoredIDs == IF backend = "memory" THEN MemKeys ELSE MongoKeys

\* C1: for every lesson a store holds, the length of version_history equals
\* version - 1, whatever CreateLesson, UpdateLesson, AddTag, RemoveTag and
\* SetCategory calls have run, in the memory store and in the Mongo store.
C1_HistoryLengthIsVersionMinusOne ==
    \A id \in StoredIDs :
        Len(StoredLesson(id).VersionHistory) = StoredLesson(id).Version - 1

\* a stored lesson that was updated twice and had its tag and category changed
C1_Witness ==
    \E id \in StoredIDs :
        /\ backend = "memory"
        /\ StoredLesson(id).Version = 3
        /\ StoredLesson(id).Tags # <<>>
        /\ StoredLesson(id).Category = "c1"

\* a successful UpdateLesson(id, ...) returns in this step
UpdateLessonReturnsOK(id) ==
    \/ \E p \in Ptrs, s \in Summaries : MemUpdateLesson(id, p, s)
    \/ \E t \in Writers, s \in Summaries :
          /\ mid[t] = id
          /\ id \in MongoKeys
          /\ MongoUpdateOne(t, s)

\* C2: every UpdateLesson call that returns success leaves the lesson's version
\* exactly one greater than the previous successful create or update left it,
\* and appends exactly one record to version_history, also when updates run
\* concurrently.
C2_UpdateIncrementsVersionByOne ==
    [][\A id \in LessonIDs :
          UpdateLessonReturnsOK(id) =>
             /\ StoredLesson(id)'.Version = StoredLesson(id).Version + 1
             /\ Len(StoredLesson(id)'.VersionHistory) =
                   Len(StoredLesson(id).VersionHistory) + 1]_vars

(***************************************************************************)
(* Claims about the circuit breaker.                                       *)
(***************************************************************************)
\* caller c's RecordResult runs in this step
RecordResultRuns(c) == cpc[c] = "rr_locked" /\ cpc'[c] = "idle"

\* C3: starting from Closed with failure threshold k, the breaker moves to Open
\* when k failures have been recorded in a row (no success between them), and
\* it stays Closed while the current run of failures is shorter than k.
C3_OpensAtThresholdAndNotBefore ==
    [][/\ state' = "Closed" => closedRun' < FailureThreshold
       /\ (state = "Closed" /\ state' # "Closed") =>
             (state' = "Open" /\ closedRun' >= FailureThreshold)]_vars

C5_SingleTrialInHalfOpen ==
    [][\A c \in Callers :
          (state = "HalfOpen" /\ trial \notin {NoCaller, c})
          => ~(cpc[c] # "fn" /\ cpc'[c] = "fn")]_vars

C7_ClosesAtSuccessThresholdAndNotBefore ==
    [][/\ state' = "HalfOpen" => halfOpenSuccesses' < HalfOpenSuccessThreshold
       /\ \A c \in Callers :
             (RecordResultRuns(c) /\ state = "HalfOpen" /\ state' = "Closed")
             => halfOpenSuccesses' >= HalfOpenSuccessThreshold]_vars

(***************************************************************************)
(* Claims about the DinD provisioner.                                      *)
(***************************************************************************)
\* C8: no two instances of the same session have the same hostname, whether
\* the hostname was auto-assigned, given in the config, or taken from the
\* lesson step's primary container.
C8_HostnameUniqueInSession ==
    \A i \in instances : \A j \in instances :
        (i.SessionId = j.SessionId /\ i.Hostname = j.Hostname) => i = j

\* C9: when InstanceNew fails after the container was created (the IP lookup
\* fails), a delete of that container is issued before the error is returned.
C9_FailedCreationDeletesContainer ==
    [][\A s \in Sessions :
          (dpc[s] = "created" /\ dpc'[s] = "idle" /\ dresult'[s] = "ips_err")
          => (dcall[s].Name \in deleted' /\ dcall[s].Name \notin containers')]_vars

(***************************************************************************)
(* Claims about the cached lesson store.                                   *)
(***************************************************************************)
\* C10: when CreateLesson, UpdateLesson or DeleteLesson of the cached store
\* returns success, no cache key whose backing-store value the mutation changed
\* (lesson:{id}, lessons:all, or a lessons:list page) still holds the entry it
\* held before the mutation.
C10_MutationInvalidatesAffectedKeys ==
    [][\A t \in Goroutines :
          (kpc[t] = "del_all" /\ kpc'[t] = "idle")
          => \A k \in kaffected[t] \cap cachedBefore[t] : ~cache'[k].Present]_vars

(***************************************************************************)
(* Claims about ListLessons.                                               *)
(***************************************************************************)
\* the client has read every page 1..ceil(total_items / page_size)
SweepDone == lsweep.Next >= 2 /\ lsweep.Next > lsweep.TotalPages

\* C11: for any filter and sort, with no mutation between the calls, the items
\* of pages 1..ceil(total_items/page_size) concatenated are the full ordered
\* result: every matching lesson exactly once, in the sort order.
C11_PagesConcatenateToFullResult ==
    SweepDone =>
        /\ Len(lsweep.Concat) = Cardinality(Matching(llessons, lsweep.Opts.Filter))
        /\ {lsweep.Concat[i] : i \in 1..Len(lsweep.Concat)} = Matching(llessons, lsweep.Opts.Filter)
        /\ IsSorted(lsweep.Concat, lsweep.Opts.Sort)

\* C12: for page >= 1 and page_size >= 1, ListLessons returns total_items = the
\* number of matching lessons and total_pages = ceil(total_items/page_size),
\* and a page beyond total_pages has empty items with those same totals.
C12_TotalsAndOutOfRangePages ==
    lresult.Opts.Page >= 1 =>
        /\ lresult.Result.Err = "nil"
        /\ lresult.Result.TotalItems = Cardinality(Matching(llessons, lresult.Opts.Filter))
        /\ lresult.Result.TotalPages * lresult.Opts.PageSize >= lresult.Result.TotalItems
        /\ (lresult.Result.TotalPages - 1) * lresult.Opts.PageSize < lresult.Result.TotalItems
        /\ lresult.Opts.Page > lresult.Result.TotalPages => lresult.Result.Items = <<>>

(***************************************************************************)
(* Claims about withRetry.                                                 *)
(***************************************************************************)
\* caller c's withRetry call invokes f in this step
AttemptRuns(c) == rinvoked'[c] = rinvoked[c] + 1

\* C13: one withRetry call counts as one breaker decision: the attempts of its
\* retry loop leave the breaker's state and counters alone, and the call
\* records exactly one result (one failure or one success) when the loop is over.
C13_OneRecordedResultPerCall ==
    [][\A c \in RetryCallers :
          /\ AttemptRuns(c) => UNCHANGED <<state, failureCount, successCount>>
          /\ (rpc[c] = "record" /\ rpc'[c] = "idle") => rrecorded'[c] = 1
          /\ rpc'[c] = "idle" => rrecorded'[c] = (IF rinvoked'[c] > 0 THEN 1 ELSE 0)]_vars

\* a call that made every attempt returned with one result recorded
C13_Witness ==
    \E c \in RetryCallers :
        rpc[c] = "idle" /\ rinvoked[c] = maxRetries + 1 /\ rrecorded[c] = 1

\* C14: a withRetry call invokes the operation at most max_retries + 1 times and
\* stops at the first attempt that succeeds or fails with a non-retryable error.
C14_AtMostMaxRetriesPlusOneAttempts ==
    [][\A c \in RetryCallers :
          /\ rinvoked'[c] <= maxRetries + 1
          /\ (AttemptRuns(c) /\ (rerr'[c] = "nil" \/ ~isRetryableError(rerr'[c])))
                => rpc'[c] = "record"]_vars

\* a call gave up after max_retries + 1 attempts, another stopped at its first
C14_Witness ==
    \E c \in RetryCallers : \E d \in RetryCallers :
        /\ rpc[c] = "record" /\ rinvoked[c] = maxRetries + 1 /\ isRetryableError(rerr[c])
        /\ rpc[d] = "record" /\ rinvoked[d] = 1 /\ rerr[d] = "WriteError"

\* C15: a storage operation that fails because the lesson does not exist is not
\* retried: it is attempted exactly once and the not-found error is returned.
C15_NotFoundIsNotRetried ==
    [][\A c \in RetryCallers :
          (AttemptRuns(c) /\ rerr'[c] = "ErrNoDocuments")
             => (rpc'[c] = "record" /\ rinvoked'[c] = 1)]_vars

(***************************************************************************)
(* Claims about lesson commands.                                           *)
(***************************************************************************)
\* the command starts with a denied prefix or contains a denied pattern
Denied(cmd) ==
    \/ \E p \in dangerousCommands : HasPrefix(cmd, p)
    \/ \E p \in dangerousPatterns : Contains(cmd, p)

\* C16: a command that starts with a denied prefix or contains a denied pattern
\* is in no stored lesson, whether the lesson was created or updated, and no
\* such command is handed to a container.
C16_NoDeniedCommandStoredOrExecuted ==
    /\ vlesson # NoCommand => ~Denied(vlesson)
    /\ vexec # NoCommand => ~Denied(vexec)

(***************************************************************************)
(* Claims about the image and the resource limits of a new instance.       *)
(***************************************************************************)
\* the first value of a list that is set, unset if there is none
RECURSIVE FirstSet(_, _)
FirstSet(values, unset) ==
    IF values = <<>> THEN unset
    ELSE IF Head(values) # unset THEN Head(values)
         ELSE FirstSet(Tail(values), unset)

\* the sources of a lesson context that exist, as records with unset values
\* where the context has no such source
SourcePrimary == IF ictx.Kind = "step" /\ ictx.HasContainers THEN ictx.Primary ELSE NoLessonCtx.Primary

SourceStep == IF ictx.Kind = "step" THEN ictx.Step ELSE NoLessonCtx.Step

SourceLesson == IF ictx.Kind # "none" THEN ictx.Lesson ELSE NoLessonCtx.Lesson

\* C17: the image of the new instance is the first that is set of: the image of
\* the instance config, the primary container's image of the current lesson
\* step, the step's image, the lesson's default image, the playground default;
\* an image set in the instance config is always the one used.
C17_ImagePrecedence ==
    iout # NoConf =>
        iout.ImageName = FirstSet(<<iconf.ImageName, SourcePrimary.Image, SourceStep.Image,
                                    SourceLesson.DefaultImage, DefaultDinDInstanceImage>>, "")

\* C18: each of max_processes, max_memory_mb and storage_size of the new
\* instance is the first that is set of: the instance config's value, the
\* primary container's, the step's, the lesson's default.
C18_ResourceLimitPrecedence ==
    iout # NoConf =>
        /\ iout.Limits.MaxProcesses =
              FirstSet(<<iconf.Limits.MaxProcesses, SourcePrimary.Limits.MaxProcesses,
                         SourceStep.Limits.MaxProcesses, SourceLesson.Limits.MaxProcesses>>, 0)
        /\ iout.Limits.MaxMemoryMB =
              FirstSet(<<iconf.Limits.MaxMemoryMB, SourcePrimary.Limits.MaxMemoryMB,
                         SourceStep.Limits.MaxMemoryMB, SourceLesson.Limits.MaxMemoryMB>>, 0)
        /\ iout.Limits.StorageSize =
              FirstSet(<<iconf.Limits.StorageSize, SourcePrimary.Limits.StorageSize,
                         SourceStep.Limits.StorageSize, SourceLesson.Limits.StorageSize>>, "")

C20_OneStatsEventPerRun ==
    \A i \in StatsInstances :
        /\ semitted[i] <= 1
        /\ sret[i] # "none" =>
              /\ semitted[i] = 1
              /\ srow[i].Session = StatsSessionOf(i) /\ srow[i].Instance = i
              /\ sret[i] = "nil" => (srow[i].Mem = "mem" /\ srow[i].Cpu = "cpu")
              /\ sret[i] # "nil" => (srow[i].Mem = NotAvailable /\ srow[i].Cpu = NotAvailable)

\* a run against an open breaker returned with its degraded row, another run
\* returned sampled values
C20_Witness ==
    /\ sret["i1"] = "breaker_open" /\ semitted["i1"] = 1 /\ srow["i1"].Mem = NotAvailable
    /\ sret["i2"] = "nil" /\ semitted["i2"] = 1 /\ srow["i2"].Mem = "mem"

(***************************************************************************)
(* Claims about SearchLessons.                                             *)
(***************************************************************************)
\* C21: in every backend, a lesson SearchLessons returns has a category among
\* categories (when given), carries at least one of tags (when given) and
\* carries every tag of required_tags (when given); with tags and
\* required_tags both given, both conditions hold.
C21_SearchAppliesEveryGivenCriterion ==
    qfound = "returned" =>
        /\ qopts.Categories # {} => qlesson.Category \in qopts.Categories
        /\ qopts.Tags # {} => qlesson.Tags \cap qopts.Tags # {}
        /\ qopts.RequiredTags # {} => qopts.RequiredTags \subseteq qlesson.Tags

(***************************************************************************)
(* Claims about GetLessonVersion.                                          *)
(***************************************************************************)
\* C22: for a stored lesson at version n, GetLessonVersion(id, v) succeeds
\* exactly when 1 <= v <= n; for v = n it returns the current lesson, and for
\* v < n a lesson with version v, updated_at the time version v was written and
\* a history of exactly the entries with version below v.
C22_GetLessonVersionReturnsRequestedVersion ==
    (gres # NoVersionResult /\ glesson # NoDoc) =>
        LET n == glesson.Version IN
        /\ gres.Err = "" <=> (1 <= greq /\ greq <= n)
        /\ (gres.Err = "" /\ greq = n) => gres.Lesson = glesson
        /\ (gres.Err = "" /\ greq < n) =>
              /\ gres.Lesson.Version = greq
              /\ gres.Lesson.UpdatedAt = gstamps[greq]
              /\ gres.Lesson.VersionHistory =
                    SubSeq(glesson.VersionHistory, 1, greq - 1)
              /\ \A i \in 1..Len(gres.Lesson.VersionHistory) :
                    gres.Lesson.VersionHistory[i].Version < greq

\* a lesson at version 3, written at three different times, asked for version 2
C22_Witness ==
    /\ glesson # NoDoc
    /\ glesson.Version = 3
    /\ gstamps = <<0, 1, 2>>
    /\ greq = 2
    /\ gres.Err = ""
    /\ gres.Lesson.Version = 2
    /\ gres.Lesson.UpdatedAt = 1
    /\ Len(gres.Lesson.VersionHistory) = 1

(***************************************************************************)
(* Claims about the markdown parsers.                                      *)
(***************************************************************************)
\* C23: a docker block appends its commands, in order, to the previous step
\* when that step exists and has neither expected nor question, and starts a
\* new step with its commands otherwise; a docker block that follows an
\* expect or question block always starts a new step.
C23_DockerBlockStartsOrExtendsStep ==
    [][(pn' = pn + 1 /\ plast'.Kind = "docker") =>
          LET n == Len(psteps)
              commands == parseCommands(plast'.Lines)
          IN  /\ IF n > 0 /\ psteps[n].Expected = <<>> /\ psteps[n].Question = <<>>
                 THEN psteps' = [psteps EXCEPT ![n].Commands = @ \o commands]
                 ELSE /\ Len(psteps') = n + 1
                      /\ SubSeq(psteps', 1, n) = psteps
                      /\ psteps'[n + 1].Commands = commands
              /\ plast.Kind \in {"expect", "question"} => Len(psteps') = n + 1]_vars

\* C24: every step a parser emits has a timeout of 5 minutes and the
\* generated id of its position (step-a, step-b, ...); the ids of the steps
\* are non-empty and pairwise distinct.
C24_StepsHaveTimeoutAndGeneratedID ==
    /\ \A i \in 1..Len(psteps) :
          /\ psteps[i].Timeout = FiveMinutes
          /\ psteps[i].ID = generateStepID(i - 1)
          /\ psteps[i].ID # NoStepID
    /\ \A i, j \in 1..Len(psteps) : i # j => psteps[i].ID # psteps[j].ID

(***************************************************************************)
(* Claims about step output validation.                                    *)
(***************************************************************************)
\* C25: a request that validates output against the lesson's step (over the
\* complete route, naming step 0, or over the validate route), with the store
\* working, is answered with a match exactly when the step's expected output
\* is empty or equals the observed output after both are trimmed.
C25_MatchIffTrimmedEqualOrNoExpectation ==
    (/\ yresp # "none"
     /\ yroute = "complete" => ygiven = "0"
     /\ ~yfail)
        => (yresp = "valid" <=>
               (yexpected = <<>> \/ TrimSpace(yout) = TrimSpace(yexpected)))

(***************************************************************************)
(* Claims about the breaker-wrapped HTTP client.                           *)
(***************************************************************************)
\* C26: a request that went through the wrapper's breaker is recorded as a
\* failure exactly when the wrapped client returned an error or a response
\* with status 500 or above, and as a success otherwise; a recorded failure
\* opens a half-open breaker, raises the failure count of a closed one by one
\* and opens it at the failure threshold, whatever kind of failure it was.
C26_ServerErrorsRecordedAsFailures ==
    hrecorded # "none" =>
        /\ hrecorded = "failure" <=> (hout.Err \/ hout.StatusCode >= 500)
        /\ hrecorded = "success" <=> (~hout.Err /\ hout.StatusCode < 500)
        /\ hrecorded = "failure" =>
              /\ hsuccesses = 0
              /\ hbefore.State = "HalfOpen" => hstate = "Open"
              /\ hbefore.State = "Closed" =>
                    IF hbefore.Failures + 1 >= FailureThreshold
                    THEN hstate = "Open" /\ hfailures = 0
                    ELSE hstate = "Closed" /\ hfailures = hbefore.Failures + 1
        /\ hrecorded = "success" =>
              /\ hfailures = 0
              /\ hstate # "Open"

\* two responses with status 500 in a row have opened the breaker
C26_Witness ==
    /\ hrecorded = "failure"
    /\ ~hout.Err
    /\ hout.StatusCode = 500
    /\ hstate = "Open"

(***************************************************************************)
(* Claims about Reset, the observer and the lock of the circuit breaker.   *)
(***************************************************************************)
\* C27: Reset leaves the breaker Closed with the failure and success counters
\* at zero, whatever state and counts it found.
C27_ResetRestoresInitialClosedState ==
    [][\A c \in Callers :
          (cpc[c] = "reset_locked" /\ cpc'[c] = "idle") =>
              (state' = "Closed" /\ failureCount' = 0 /\ successCount' = 0)]_vars

\* C28: the observer is told of changes of the breaker's state and of nothing
\* else: a notification names the state the breaker left and the different
\* state it entered.
C28_NotificationMatchesStateChange ==
    notified # NoNotification => notified[1] # notified[2]

\* C29: every step that writes the breaker's state or counters is taken by the
\* caller that holds the write lock of cb.mutex, while no caller holds the
\* read lock.
C29_MutationsHoldTheWriteLock ==
    [][(state' # state \/ failureCount' # failureCount \/ successCount' # successCount) =>
          /\ \E c \in Callers : cpc[c] \in {"rr_locked", "reset_locked"} /\ cpc'[c] = "idle"
          /\ ReadLockHolders = {}]_vars

(***************************************************************************)
(* Claims about concurrent misses of the lesson cache.                     *)
(***************************************************************************)
\* C30: no two goroutines are at the same time between their miss of the same
\* cache key and their cache.Set, each with a read of the backing store of
\* its own: one miss of a key is filled by one read of the backing store.
C30_OneStoreReadPerMissedKey ==
    \A t, u \in Goroutines :
        (/\ t # u
         /\ kpc[t] \in {"store_read", "cache_set"}
         /\ kpc[u] \in {"store_read", "cache_set"})
            => kkey[t] # kkey[u]

(***************************************************************************)
(* Claims about the content of earlier versions.                           *)
(***************************************************************************)
\* C31: GetLessonVersion(id, v) for an earlier version v returns the lesson
\* with the title it had when it was at version v.
C31_EarlierVersionHasItsOwnContent ==
    (gres.Err = "" /\ glesson # NoDoc /\ greq < glesson.Version) =>
        gres.Lesson.Title = gtitles[greq]

(***************************************************************************)
(* Claims about reads through the cached store after a mutation.           *)
(***************************************************************************)
\* C32: once every UpdateLesson and DeleteLesson of the cached store has
\* returned, the entry a GetLesson would be served from the cache is the
\* lesson the backing store holds, not the lesson from before a mutation.
C32_NoStaleLessonAfterMutationReturned ==
    (\A t \in Goroutines : kpc[t] \notin {"del_lesson", "del_all"}) =>
        \A id \in CachedIDSet :
            cache[LessonKey(id)].Present =>
                cache[LessonKey(id)].Value = StoreValue(bstore, LessonKey(id))

\* C33: the step of AllowRequest that moves the breaker from Open to HalfOpen
\* does not invoke the state-change callback.
C33_HalfOpenPromotionIsSilent ==
    [][(state = "Open" /\ state' = "HalfOpen") => notified' = notified]_vars

(***************************************************************************)
(* Claims about the rate-limiting middleware.                              *)
(***************************************************************************)
\* C34: the middleware admits a sustained 10 requests per second: a request
\* is answered 429 only when 10 requests were already admitted during the
\* current second.
C34_TenRequestsPerSecondSustained ==
    lout = "TooManyRequests" => ladmitted >= 10

(***************************************************************************)
(* Claims about calls that outlive the period they were admitted in.       *)
(***************************************************************************)
\* C35: when a call admitted before the breaker opened or re-opened records
\* its result in a later HalfOpen period, the breaker does not close and its
\* success count does not grow.
C35_ResultCountsOnlyInItsOwnPeriod ==
    [][\A c \in Callers :
          (qpc[c] = "fn" /\ qpc'[c] = "idle" /\ qstale[c] /\ qstate = "HalfOpen") =>
              (qstate' # "Closed" /\ qsuccesses' <= qsuccesses)]_vars

(***************************************************************************)
(* Claims about lookups of missing lessons and the storage breaker.        *)
(***************************************************************************)
\* C36: a storage call that ended because the lesson does not exist is not
\* counted as a failure by the storage breaker and does not open it.
C36_NotFoundIsNoBreakerFailure ==
    [][\A c \in RetryCallers :
          (rpc[c] = "record" /\ rpc'[c] = "idle" /\ rerr[c] = "ErrNoDocuments") =>
              (failureCount' <= failureCount /\ (state' = "Open" => state = "Open"))]_vars

(***************************************************************************)
(* Claims about lesson progress.                                           *)
(***************************************************************************)
\* C37: current_step grows only by one, only in a completeStep request for the
\* step whose index is current_step, and never beyond the number of steps.
C37_CurrentStepAdvancesOneStepAtATime ==
    [][ucurrent' > ucurrent =>
          /\ ucurrent' = ucurrent + 1
          /\ ucurrent' <= NumSteps
          /\ \E r \in Goroutines :
                upc[r] \in {"store", "update"} /\ upc'[r] # upc[r] /\ ustep[r] = ucurrent]_vars

(***************************************************************************)
(* Claims about ListLessons with a page or page size below 1.              *)
(***************************************************************************)
\* C38: ListLessons called with page < 1 or page_size < 1 does not crash and
\* answers as for page 1 and page_size 20 in place of the values below 1.
C38_UnsetPagingFallsBackToDefaults ==
    (lresult.Opts # NoListOptions /\ (lresult.Opts.Page < 1 \/ lresult.Opts.PageSize < 1)) =>
        /\ lresult.Result.Err = "nil"
        /\ lresult.Result.Page = (IF lresult.Opts.Page < 1 THEN 1 ELSE lresult.Opts.Page)
        /\ lresult.Result.PageSize =
              (IF lresult.Opts.PageSize < 1 THEN 20 ELSE lresult.Opts.PageSize)

(***************************************************************************)
(* Claims about listings through the cached store.                         *)
(***************************************************************************)
\* C39: with no mutation of the backing store, ListLessons through the cached
\* store returns a result the backing store returns for the same options.
C39_CachedListingIsTheStoresListing ==
    vlast.Opts # NoListOptions => vlast.Result \in StoreListResults(vlessons, vlast.Opts)

(***************************************************************************)
(* Claims about the recovery of the breaker.                               *)
(***************************************************************************)
\* some caller's operation returns an error
OperationFails == \E c \in Callers : FnReturns(c, "err")

\* C40: if from some point on no operation fails, while time passes and calls
\* keep arriving, the breaker is Closed from some point on: an Open breaker
\* returns to Closed and stays Closed.
C40_OpenBreakerRecovers ==
    <>[][~OperationFails]_vars => <>[](state = "Closed")

\* the breaker was Open, became HalfOpen, and the success that reached the
\* threshold has just closed it
C40_Witness ==
    /\ state = "Closed"
    /\ notified = <<"HalfOpen", "Closed">>
    /\ halfOpenSuccesses = HalfOpenSuccessThreshold

====
